---- MODULE Spec2Model ----
(***************************************************************************)
(* A model of RecurrenceRelation (RecurrenceRelationSolver/                *)
(* RecurrenceRelation.py): the analyser, the characteristic equation, the  *)
(* real roots, the general solution, the Theorem-6 particular solution,    *)
(* the initial fit, and the two evaluators (closed form and iteration).    *)
(*                                                                         *)
(* Expressions are modelled by their structure after sympy's expand():     *)
(* a sum is a sequence of terms in sympy's argument order, a term is a     *)
(* product  coef * n^npow * base^n * s(n-off1)^pow1 * ...                  *)
(* Numbers are exact rationals <<numerator, denominator>>.                 *)
(***************************************************************************)
EXTENDS Integers, Sequences, FiniteSets, TLC

(***************************************************************************)
(* Exact rational arithmetic (sympy Rational).                             *)
(***************************************************************************)
Abs(x) == IF x < 0 THEN -x ELSE x

RECURSIVE GCD(_, _)
GCD(a, b) == IF b = 0 THEN Abs(a) ELSE GCD(b, a % b)

RNorm(p, q) ==
    LET g == GCD(Abs(p), Abs(q))
        s == IF q < 0 THEN -1 ELSE 1
    IN  IF p = 0 THEN <<0, 1>> ELSE <<s * (p \div g), s * (q \div g)>>

RInt(i) == <<i, 1>>
RZero == RInt(0)
ROne == RInt(1)
RAdd(x, y) ==
    IF x[2] = 1 /\ y[2] = 1 THEN <<x[1] + y[1], 1>>
    ELSE RNorm(x[1] * y[2] + y[1] * x[2], x[2] * y[2])
RNeg(x) == <<-x[1], x[2]>>
RSub(x, y) == RAdd(x, RNeg(y))
RAbs(x) == <<Abs(x[1]), x[2]>>
RLess(x, y) == x[1] * y[2] < y[1] * x[2]
RMul(x, y) ==
    IF x[2] = 1 /\ y[2] = 1 THEN <<x[1] * y[1], 1>>
    ELSE RNorm(x[1] * y[1], x[2] * y[2])
RDiv(x, y) == RNorm(x[1] * y[2], x[2] * y[1])

RECURSIVE IPow(_, _)
IPow(b, e) == IF e = 0 THEN 1 ELSE b * IPow(b, e - 1)

RECURSIVE RSum(_)
RSum(seq) == IF seq = <<>> THEN RZero ELSE RAdd(Head(seq), RSum(Tail(seq)))

RECURSIVE ISum(_)
ISum(seq) == IF seq = <<>> THEN 0 ELSE Head(seq) + ISum(Tail(seq))

SetMax(S) == CHOOSE x \in S : \A y \in S : y <= x
SetMin(S) == CHOOSE x \in S : \A y \in S : x <= y

Range(seq) == {seq[i] : i \in 1..Len(seq)}

(***************************************************************************)
(* Expressions.  A term is  coef * n^npow * base^n * PROD s(n-off)^pow,     *)
(* times factorial(n) when other is TRUE.                                  *)
(* base = 1 stands for "no b^n factor" (sympy evaluates 1**n to 1).        *)
(* calls is kept in sympy's argument order.                                *)
(***************************************************************************)
Call(off, pow) == [off |-> off, pow |-> pow]
MkTerm(c, np, b, cs) ==
    [coef |-> c, npow |-> np, base |-> b, calls |-> cs, other |-> FALSE]
Num(c) == MkTerm(c, 0, 1, <<>>)
NSym == MkTerm(1, 1, 1, <<>>)

\* factorial(n): a factor in n that is no power of n and no power b^n.
FactorialN == [MkTerm(1, 0, 1, <<>>) EXCEPT !.other = TRUE]

\* The monomial of a term: the term without its numeric coefficient.
Mono(t) == [t EXCEPT !.coef = 1]

\* expr.has(s), expr.has(n), expr.has(sympy.Pow)
HasS(t) == t.calls # <<>>
HasN(t) == t.npow > 0 \/ t.base # 1 \/ t.calls # <<>> \/ t.other
HasPow(t) == t.npow >= 2 \/ t.base # 1 \/ \E i \in 1..Len(t.calls) : t.calls[i].pow # 1

\* Number of factors of a term other than its numeric coefficient.
NFactors(t) ==
    (IF t.npow > 0 THEN 1 ELSE 0) + (IF t.base # 1 THEN 1 ELSE 0)
    + (IF t.other THEN 1 ELSE 0) + Len(t.calls)

\* expr.func: the head of a term in sympy's tree.
Func(t) ==
    IF NFactors(t) = 0 THEN "Number"
    ELSE IF t.coef # 1 \/ NFactors(t) >= 2 THEN "Mul"
    ELSE IF t.npow = 1 THEN "Symbol"
    ELSE IF t.other THEN "factorial"
    ELSE IF t.calls # <<>> /\ t.calls[1].pow = 1 THEN "s"
    ELSE "Pow"

IsPowCall(c) == c.pow # 1
IsPlainCall(c) == c.pow = 1
CallTerm(c) == MkTerm(1, 0, 1, <<c>>)
CallTerms(cs) == [i \in 1..Len(cs) |-> CallTerm(cs[i])]

\* Mul.args: the numeric coefficient first, then the symbol n, the powers
\* (b^n, n^d, s(..)^m), factorial(n) and the calls of s, in sympy's
\* canonical order.
Factors(t) ==
    (IF t.coef # 1 THEN <<Num(t.coef)>> ELSE <<>>)
    \o (IF t.npow = 1 THEN <<NSym>> ELSE <<>>)
    \o (IF t.base # 1 THEN <<MkTerm(1, 0, t.base, <<>>)>> ELSE <<>>)
    \o (IF t.npow >= 2 THEN <<MkTerm(1, t.npow, 1, <<>>)>> ELSE <<>>)
    \o CallTerms(SelectSeq(t.calls, IsPowCall))
    \o (IF t.other THEN <<FactorialN>> ELSE <<>>)
    \o CallTerms(SelectSeq(t.calls, IsPlainCall))

\* expr.args of a term: the factors of a product, (base, exponent) of a
\* power, the single argument of a call of s, nothing for an atom.
TermArgs(t) ==
    CASE Func(t) = "Mul" -> Factors(t)
      [] Func(t) = "s" -> <<t>>
      [] Func(t) = "factorial" -> <<NSym>>
      [] Func(t) = "Pow" ->
            IF t.base # 1 THEN <<Num(t.base), NSym>>
            ELSE IF t.npow >= 2 THEN <<NSym, Num(t.npow)>>
            ELSE <<CallTerm(Call(t.calls[1].off, 1)), Num(t.calls[1].pow)>>
      [] OTHER -> <<>>

(***************************************************************************)
(* Sums (sympy Add): a set of terms with pairwise different monomials;     *)
(* adding a term combines like terms and drops a zero coefficient.         *)
(***************************************************************************)
SumAdd(S, t) ==
    IF t.coef = 0 THEN S
    ELSE IF \E u \in S : Mono(u) = Mono(t)
    THEN LET u == CHOOSE u \in S : Mono(u) = Mono(t)
             c == u.coef + t.coef
         IN  IF c = 0 THEN S \ {u}
             ELSE (S \ {u}) \cup {[t EXCEPT !.coef = c]}
    ELSE S \cup {t}

RECURSIVE SumOfSeq(_)
SumOfSeq(seq) ==
    IF seq = <<>> THEN {} ELSE SumAdd(SumOfSeq(Tail(seq)), Head(seq))

RECURSIVE SumUnion(_, _)
SumUnion(S, T) ==
    IF T = {} THEN S
    ELSE LET t == CHOOSE t \in T : TRUE IN SumUnion(SumAdd(S, t), T \ {t})

(***************************************************************************)
(* _analyseExpression.  rec is self._recurrence: the sequence of the       *)
(* top-level Add's arguments, or a single term when the top level is no    *)
(* Add.  sel chooses which call of s is printed first by str(set) when a   *)
(* term holds several calls (the order of a Python set of sympy objects    *)
(* depends on the process's hash seed).                                    *)
(***************************************************************************)
\* self._recurrence.args
RecArgs(rec) == IF Len(rec) >= 2 THEN rec ELSE TermArgs(rec[1])

HasDigits(c) == c.off >= 1

\* int(re.search(r'\d+', str(arg.find(s(n-i)))).group()); -1 stands for the
\* AttributeError of a string without digits (only s(n) was found).
TermDegree(t, sel) ==
    LET d == SelectSeq(t.calls, HasDigits)
    IN  IF d = <<>> THEN -1 ELSE d[((sel - 1) % Len(d)) + 1].off

\* The test of lines 483-487 on the first two factors of a product.
MulNonLinear(t) ==
    LET s_args == Factors(t)
    IN  (HasS(s_args[1]) \/ HasS(s_args[1]))
        /\ (HasS(s_args[2]) \/ HasN(s_args[2]))

AnalysisStart ==
    [degree |-> 0, homogenous |-> {}, nonHomogenous |-> {}, linear |-> TRUE,
     raised |-> FALSE, broke |-> FALSE]

\* One pass of the loop body of lines 470-491 for the argument arg.
AnalyseArg(st, arg, sel) ==
    IF HasS(arg) THEN
        LET hom == SumAdd(st.homogenous, arg)
            term_degree == TermDegree(arg, sel)
            degree == IF term_degree > st.degree THEN term_degree ELSE st.degree
        IN  IF term_degree = -1
            THEN [st EXCEPT !.homogenous = hom, !.raised = TRUE]
            ELSE IF HasPow(arg)
            THEN [st EXCEPT !.homogenous = hom, !.degree = degree,
                            !.linear = FALSE, !.broke = TRUE]
            ELSE IF Func(arg) = "Mul" /\ MulNonLinear(arg)
            THEN [st EXCEPT !.homogenous = hom, !.degree = degree,
                            !.linear = FALSE, !.broke = TRUE]
            ELSE [st EXCEPT !.homogenous = hom, !.degree = degree]
    ELSE [st EXCEPT !.nonHomogenous = SumAdd(st.nonHomogenous, arg)]

RECURSIVE AnalyseLoop(_, _, _, _)
AnalyseLoop(args, i, st, sel) ==
    IF i > Len(args) \/ st.raised \/ st.broke THEN st
    ELSE AnalyseLoop(args, i + 1, AnalyseArg(st, args[i], sel), sel)

\* _analyseExpression: with a single argument the argument is replaced by
\* the recurrence itself (lines 471-472).
AnalyseExpression(rec, sel) ==
    LET args == RecArgs(rec)
    IN  IF Len(args) = 1 THEN AnalyseLoop(<<rec[1]>>, 1, AnalysisStart, sel)
        ELSE AnalyseLoop(args, 1, AnalysisStart, sel)

(***************************************************************************)
(* _getDirectKey, _dictBuilder, _getCharacteristicEquation.                *)
(* A key j >= 1 stands for the dictionary key -j; 0 for the key None (the  *)
(* second factor is no call of s); -1 for the IndexError of s(n), whose    *)
(* argument n has no arguments.                                            *)
(***************************************************************************)
CallKey(t) == IF t.calls[1].off = 0 THEN -1 ELSE t.calls[1].off

GetDirectKey(t) ==
    IF Func(t) = "s" THEN CallKey(t)
    ELSE IF Func(Factors(t)[2]) = "s" THEN CallKey(Factors(t)[2])
    ELSE 0

\* _dictBuilder without its last branch: a bare call of s adds no entry.
DictEntry_BareCallDropped(t) ==
    CASE Func(t) = "Mul" -> <<GetDirectKey(t), Factors(t)[1]>>
      [] OTHER -> <<>>

\* The entry one term adds to dicts: <<key, value>>, or <<>> for none.
DictEntry(t) ==
    CASE Func(t) = "Mul" -> <<GetDirectKey(t), Factors(t)[1]>>
      [] Func(t) = "s" -> <<GetDirectKey(t), Num(1)>>
      [] OTHER -> <<>>

IsEntry(e) == e # <<>>

\* _dictBuilder(self._recurrence, dicts): the entries in the order written.
DictBuilder(rec) == SelectSeq([i \in 1..Len(rec) |-> DictEntry(rec[i])], IsEntry)

DictRaises(dicts) == \E i \in 1..Len(dicts) : dicts[i][1] = -1

\* dicts.get(-j, 0): the last value written under the key, else 0.
DictGet(dicts, j) ==
    LET at == {i \in 1..Len(dicts) : dicts[i][1] = j}
    IN  IF at = {} THEN Num(0) ELSE dicts[SetMax(at)][2]

\* The characteristic equation r^k - SUM dicts.get(-i, 0) r^(k-i) as the
\* sequence of its coefficients from r^k down to r^0; numeric is FALSE when
\* a coefficient is no number (n, or a call of s), and the equation then
\* has a second generator.
GetCharacteristicEquation(rec, degree) ==
    LET dicts == DictBuilder(rec)
    IN  [raised |-> DictRaises(dicts),
         numeric |-> \A i \in 1..degree : Func(DictGet(dicts, i)) = "Number",
         coefs |-> [i \in 1..(degree + 1) |->
                      IF i = 1 THEN 1
                      ELSE IF Func(DictGet(dicts, i - 1)) = "Number"
                           THEN -DictGet(dicts, i - 1).coef ELSE 0]]

(***************************************************************************)
(* sympy.roots of a monic polynomial with integer coefficients, filtered   *)
(* to the real roots (line 563).  Rational roots of such a polynomial are  *)
(* integers no larger than 1 + the largest coefficient.                    *)
(***************************************************************************)
RECURSIVE PolyEvalFrom(_, _, _, _)
PolyEvalFrom(coefs, x, i, acc) ==
    IF i > Len(coefs) THEN acc ELSE PolyEvalFrom(coefs, x, i + 1, acc * x + coefs[i])
PolyEval(coefs, x) == PolyEvalFrom(coefs, x, 1, 0)

\* coefs / (r - x) by synthetic division, for a root x.
RECURSIVE DeflateFrom(_, _, _, _)
DeflateFrom(coefs, x, i, out) ==
    IF i >= Len(coefs) THEN out
    ELSE DeflateFrom(coefs, x, i + 1,
                     Append(out, coefs[i] + (IF out = <<>> THEN 0 ELSE x * out[Len(out)])))
Deflate(coefs, x) == DeflateFrom(coefs, x, 1, <<>>)

RECURSIVE Multiplicity(_, _)
Multiplicity(coefs, x) ==
    IF Len(coefs) >= 2 /\ PolyEval(coefs, x) = 0
    THEN 1 + Multiplicity(Deflate(coefs, x), x) ELSE 0

RECURSIVE DeflateTimes(_, _, _)
DeflateTimes(coefs, x, m) ==
    IF m = 0 THEN coefs ELSE DeflateTimes(Deflate(coefs, x), x, m - 1)

RootBound(coefs) == 1 + SetMax({Abs(coefs[i]) : i \in 1..Len(coefs)})

\* The integer roots with their multiplicities, in ascending order, and
\* the polynomial left when they are divided out.
RECURSIVE IntegerRoots(_, _, _, _)
IntegerRoots(coefs, x, hi, found) ==
    IF x > hi THEN [roots |-> found, rest |-> coefs]
    ELSE LET m == Multiplicity(coefs, x)
         IN  IF m = 0 THEN IntegerRoots(coefs, x + 1, hi, found)
             ELSE IntegerRoots(DeflateTimes(coefs, x, m), x + 1, hi,
                               Append(found, <<x, m>>))

\* What is left without integer roots: nothing, a quadratic with two
\* complex roots (dropped by the filter), a quadratic with two irrational
\* real roots, or a polynomial of higher degree.
RestKind(rest) ==
    IF Len(rest) = 1 THEN "none"
    ELSE IF Len(rest) = 3
         THEN IF rest[2] * rest[2] - 4 * rest[1] * rest[3] < 0
              THEN "complex" ELSE "irrational"
         ELSE "other"

RealRoots(coefs) ==
    LET b == RootBound(coefs)
        ir == IntegerRoots(coefs, -b, b, <<>>)
    IN  [roots |-> ir.roots, rest |-> RestKind(ir.rest)]

\* sum(realRoots.values())
SumMultiplicities(roots) == ISum([i \in 1..Len(roots) |-> roots[i][2]])

\* realroots.get(power, 0)
RootsGet(roots, b) ==
    IF \E i \in 1..Len(roots) : roots[i][1] = b
    THEN roots[CHOOSE i \in 1..Len(roots) : roots[i][1] = b][2]
    ELSE 0

(***************************************************************************)
(* Linear systems over the rationals (sympy linsolve, and the solve inside *)
(* solve_undetermined_coeffs).  A row is <<a_1, ..., a_nv, b>> and stands  *)
(* for a_1 x_1 + ... + a_nv x_nv = b.  Gauss-Jordan elimination, pivots    *)
(* taken column by column in the order of the symbols.                     *)
(***************************************************************************)
RowScale(row, k) == [c \in 1..Len(row) |-> RMul(row[c], k)]
RowSubMul(row, prow, k) == [c \in 1..Len(row) |-> RSub(row[c], RMul(prow[c], k))]

SwapRows(M, a, b) ==
    [i \in 1..Len(M) |-> IF i = a THEN M[b] ELSE IF i = b THEN M[a] ELSE M[i]]

\* The rows from r on with a non-zero entry in column c.
PivotCandidates(M, r, c) == {i \in r..Len(M) : M[i][c] # RZero}

\* Row r scaled to prow, and prow eliminated from the other rows.
EliminateWith(S, r, c, prow) ==
    [i \in 1..Len(S) |-> IF i = r THEN prow ELSE RowSubMul(S[i], prow, S[i][c])]

Eliminate(S, r, c) == EliminateWith(S, r, c, RowScale(S[r], RDiv(ROne, S[r][c])))

RECURSIVE Rref(_, _, _, _, _)
Rref(M, nv, r, c, piv) ==
    IF c > nv \/ r > Len(M) THEN [M |-> M, piv |-> piv]
    ELSE IF PivotCandidates(M, r, c) = {} THEN Rref(M, nv, r, c + 1, piv)
    ELSE Rref(Eliminate(SwapRows(M, r, SetMin(PivotCandidates(M, r, c))), r, c),
              nv, r + 1, c + 1, Append(piv, c))

IsPivot(piv, v) == \E k \in 1..Len(piv) : piv[k] = v
PivotRow(piv, v) == CHOOSE k \in 1..Len(piv) : piv[k] = v

\* The parametric solution read off the reduced matrix R.M with the pivot
\* columns R.piv.
Parametric(R, nv) ==
    [consistent |->
        \A i \in 1..Len(R.M) :
            (\A c \in 1..nv : R.M[i][c] = RZero) => R.M[i][nv + 1] = RZero,
     free |-> {v \in 1..nv : ~IsPivot(R.piv, v)},
     sol |-> [v \in 1..nv |->
                IF IsPivot(R.piv, v)
                THEN [c \in 1..(nv + 1) |->
                        IF c = nv + 1 THEN R.M[PivotRow(R.piv, v)][c]
                        ELSE IF c = v THEN RZero
                        ELSE RNeg(R.M[PivotRow(R.piv, v)][c])]
                ELSE [c \in 1..(nv + 1) |-> IF c = v THEN ROne ELSE RZero]]]

\* The parametric solution: sol[v] is <<e_1, ..., e_nv, k>>, the value of
\* x_v as e_1 x_1 + ... + e_nv x_nv + k over the free symbols; a free symbol
\* is its own value.  consistent is FALSE when the solution set is empty.
LinSolve(rows, nv) == Parametric(Rref(rows, nv, 1, 1, <<>>), nv)

(***************************************************************************)
(* _set_free_variables_to_zero.  solution maps each symbol of keys to its  *)
(* expression <<e_1, ..., e_nv, k>>.  A symbol that occurs in an           *)
(* expression and is no key is added as its own value; every symbol that   *)
(* is its own value is replaced by 0 in every expression.  The result maps *)
(* the symbols of the new dictionary to their expressions.                 *)
(***************************************************************************)
UnitExpr(v, nv) == [c \in 1..(nv + 1) |-> IF c = v THEN ROne ELSE RZero]

\* _set_free_variables_to_zero without the substitution of line 137.
SetFreeVariablesToZero_Keeping(solution, keys, nv) ==
    LET atoms == {a \in 1..nv : \E k \in keys : solution[k][a] # RZero}
        newKeys == keys \cup atoms
    IN  [keys |-> newKeys,
         expr |-> [a \in newKeys |->
                     IF a \in keys THEN solution[a] ELSE UnitExpr(a, nv)]]

\* _set_free_variables_to_zero without lines 131-132: the symbols that are
\* no key of the solution are not added.
SetFreeVariablesToZero_KeysOnly(solution, keys, nv) ==
    LET replaced == {a \in keys : solution[a] = UnitExpr(a, nv)}
    IN  [keys |-> keys,
         expr |-> [a \in keys |->
                     [c \in 1..(nv + 1) |->
                        IF c \in replaced THEN RZero ELSE solution[a][c]]]]

SetFreeVariablesToZero(solution, keys, nv) ==
    LET atoms == {a \in 1..nv : \E k \in keys : solution[k][a] # RZero}
        newKeys == keys \cup atoms
        newSolution == [a \in newKeys |->
                           IF a \in keys THEN solution[a] ELSE UnitExpr(a, nv)]
        replaced == {a \in newKeys : newSolution[a] = UnitExpr(a, nv)}
    IN  [keys |-> newKeys,
         expr |-> [a \in newKeys |->
                     [c \in 1..(nv + 1) |->
                        IF c \in replaced THEN RZero ELSE newSolution[a][c]]]]

(***************************************************************************)
(* _getGeneralSolution.  roots is the roots map as the sequence of its     *)
(* <<root, multiplicity>> items in insertion order.  A symbolic monomial   *)
(* [sym, deg, base] stands for  sym * n^deg * base^n.                      *)
(***************************************************************************)
PSym(i, j) == [kind |-> "p", i |-> i, j |-> j]
QSym(i, j) == [kind |-> "q", i |-> i, j |-> j]
SMono(sym, deg, base) == [sym |-> sym, deg |-> deg, base |-> base]

RECURSIVE Flatten(_)
Flatten(seqs) == IF seqs = <<>> THEN <<>> ELSE Head(seqs) \o Flatten(Tail(seqs))

\* The block of a root with one symbol for all its powers of n.
RootBlock_OneSymbol(i, root, m) == [jj \in 1..m |-> SMono(PSym(i, 0), jj - 1, root)]

\* The block of the i-th root (i counted from 0, as enumerate does).
RootBlock(i, root, m) == [jj \in 1..m |-> SMono(PSym(i, jj - 1), jj - 1, root)]

GetGeneralSolution(roots) ==
    Flatten([k \in 1..Len(roots) |-> RootBlock(k - 1, roots[k][1], roots[k][2])])

\* The symbols of ctx other than n, in the order they were registered.
CtxSymbols(monos) == [k \in 1..Len(monos) |-> monos[k].sym]

(***************************************************************************)
(* Closed forms: a set of numeric monomials [coef, deg, base] standing for *)
(* coef * n^deg * base^n, with like monomials combined (simplify).         *)
(***************************************************************************)
NMono(coef, deg, base) == [coef |-> coef, deg |-> deg, base |-> base]

NSumAdd(S, m) ==
    IF m.coef = RZero THEN S
    ELSE IF \E u \in S : u.deg = m.deg /\ u.base = m.base
    THEN LET u == CHOOSE u \in S : u.deg = m.deg /\ u.base = m.base
             c == RAdd(u.coef, m.coef)
         IN  IF c = RZero THEN S \ {u} ELSE (S \ {u}) \cup {NMono(c, m.deg, m.base)}
    ELSE S \cup {m}

RECURSIVE NSumOfSeq(_)
NSumOfSeq(seq) ==
    IF seq = <<>> THEN {} ELSE NSumAdd(NSumOfSeq(Tail(seq)), Head(seq))

RECURSIVE NSumUnion(_, _)
NSumUnion(S, T) ==
    IF T = {} THEN S
    ELSE LET t == CHOOSE t \in T : TRUE IN NSumUnion(NSumAdd(S, t), T \ {t})

\* n^deg * base^n at n = x (sympy: 0**0 = 1).
MonoAt(deg, base, x) == IPow(x, deg) * IPow(base, x)

RECURSIVE EvalSet(_, _)
EvalSet(S, x) ==
    IF S = {} THEN RZero
    ELSE LET m == CHOOSE m \in S : TRUE
         IN  RAdd(RMul(m.coef, RInt(MonoAt(m.deg, m.base, x))), EvalSet(S \ {m}, x))

\* expr.subs(n, x) of a closed form.
EvalClosed(form, x) == EvalSet(form, x)

(***************************************************************************)
(* _calculateClosedFromGeneralSolution.  The candidate is particular (a    *)
(* closed form, empty for a homogeneous recurrence) plus the general       *)
(* solution monos; ics is the sequence of the <<index, value>> items of    *)
(* self._initialConditions.                                                *)
(***************************************************************************)
\* FitRow without the particular solution in the equation.
FitRow_IgnoringParticular(monos, particular, ic) ==
    [c \in 1..(Len(monos) + 1) |->
        IF c <= Len(monos) THEN RInt(MonoAt(monos[c].deg, monos[c].base, ic[1]))
        ELSE RInt(ic[2])]

\* The equation of one initial condition (lines 183-185) as a row.
FitRow(monos, particular, ic) ==
    [c \in 1..(Len(monos) + 1) |->
        IF c <= Len(monos) THEN RInt(MonoAt(monos[c].deg, monos[c].base, ic[1]))
        ELSE RSub(RInt(ic[2]), EvalClosed(particular, ic[1]))]

FitRows(monos, particular, ics) ==
    [k \in 1..Len(ics) |-> FitRow(monos, particular, ics[k])]

\* The symbols of monos that still occur in the values of solution.
SymbolsLeft(monos, solution) ==
    {monos[c].sym : c \in {c \in 1..Len(monos) :
        \E k \in solution.keys : solution.expr[k][c] # RZero}}

\* Lines 203-212: the solution without free symbols put in the candidate;
\* left are the p symbols the substitution leaves in it.
FitSubstituted(monos, particular, solution) ==
    [raised |-> FALSE,
     left |-> SymbolsLeft(monos, solution),
     solved |-> NSumUnion(NSumOfSeq([k \in 1..Len(monos) |->
                    NMono(solution.expr[k][Len(monos) + 1], monos[k].deg, monos[k].base)]),
                    particular),
     values |-> [k \in 1..Len(monos) |-> solution.expr[k][Len(monos) + 1]]]

\* The fit without the test of line 195 for an empty solution set.
FitSolved_Unchecked(monos, particular, solutions) ==
    FitSubstituted(monos, particular,
        SetFreeVariablesToZero(solutions.sol, 1..Len(monos), Len(monos)))

\* Lines 195-212, with the result of linsolve.
FitSolved(monos, particular, solutions) ==
    IF ~solutions.consistent
    THEN [raised |-> TRUE, left |-> {}, solved |-> {}, values |-> <<>>]
    ELSE FitSubstituted(monos, particular,
            SetFreeVariablesToZero(solutions.sol, 1..Len(monos), Len(monos)))

CalculateClosedFromGeneralSolution(monos, particular, ics) ==
    FitSolved(monos, particular, LinSolve(FitRows(monos, particular, ics), Len(monos)))

(***************************************************************************)
(* The canonical order of the arguments of a sympy Add (and of a sum that  *)
(* is built term by term): Basic.compare orders by class (numbers, Symbol, *)
(* Pow, Mul, factorial, then the undefined function s), then by the number *)
(* of arguments, then argument by argument.                                *)
(***************************************************************************)
CallOrd(off) == IF off = 0 THEN -1 ELSE IF off = 1 THEN 0 ELSE 1000 - off

FactorKey(f) ==
    CASE Func(f) = "Number" -> IF f.coef = -1 THEN <<0, 0, 0, 0>> ELSE <<1, f.coef, 0, 0>>
      [] Func(f) = "Symbol" -> <<2, 0, 0, 0>>
      [] Func(f) = "Pow" ->
            IF f.base # 1 THEN <<3, 0, f.base, 0>>
            ELSE IF f.npow >= 2 THEN <<3, 1, f.npow, 0>>
            ELSE <<3, 2, CallOrd(f.calls[1].off), f.calls[1].pow>>
      [] Func(f) = "factorial" -> <<4, 0, 0, 0>>
      [] OTHER -> <<5, CallOrd(f.calls[1].off), 0, 0>>

TopRank(t) ==
    CASE Func(t) = "Number" -> 0
      [] Func(t) = "Symbol" -> 1
      [] Func(t) = "Pow" -> 2
      [] Func(t) = "Mul" -> 3
      [] Func(t) = "factorial" -> 4
      [] OTHER -> 5

TermKey(t) ==
    LET fs == IF Func(t) = "Mul" THEN Factors(t) ELSE <<t>>
    IN  <<TopRank(t), Len(fs)>> \o Flatten([k \in 1..Len(fs) |-> FactorKey(fs[k])])

RECURSIVE SeqLess(_, _)
SeqLess(a, b) ==
    IF a = <<>> THEN b # <<>>
    ELSE IF b = <<>> THEN FALSE
    ELSE IF Head(a) # Head(b) THEN Head(a) < Head(b)
    ELSE SeqLess(Tail(a), Tail(b))

\* The arguments of the Add of a sum, in canonical order.
RECURSIVE SumArgs(_)
SumArgs(S) ==
    IF S = {} THEN <<>>
    ELSE LET t == CHOOSE t \in S : \A u \in S \ {t} : SeqLess(TermKey(t), TermKey(u))
         IN  <<t>> \o SumArgs(S \ {t})

(***************************************************************************)
(* _theorem6Classifier and _theorem6SolutionBuilder.  buckets is the       *)
(* dictionary as the sequence of its items in insertion order; an item is  *)
(* [power, polys], polys the set of <<poly, constant>> pairs.              *)
(***************************************************************************)
\* The loop of lines 238-246 over the factors of one term.
RECURSIVE ClassifyArgs(_, _, _)
ClassifyArgs(args, i, c) ==
    IF i > Len(args) THEN c
    ELSE LET a == args[i]
         IN  ClassifyArgs(args, i + 1,
                IF ~HasN(a) THEN [c EXCEPT !.constant = a.coef]
                ELSE IF Func(a) = "Symbol" THEN [c EXCEPT !.poly = 1]
                ELSE IF Func(a) = "Pow" /\ a.npow >= 2 THEN [c EXCEPT !.poly = a.npow]
                ELSE IF Func(a) = "Pow" /\ a.base # 1 THEN [c EXCEPT !.power = a.base]
                ELSE c)

Classify(t) ==
    ClassifyArgs(IF Func(t) = "Mul" THEN Factors(t) ELSE <<t>>, 1,
                 [power |-> 1, constant |-> 1, poly |-> 0])

\* buckets[power][poly] = constant
BucketPut(buckets, c) ==
    IF \E k \in 1..Len(buckets) : buckets[k].power = c.power
    THEN [k \in 1..Len(buckets) |->
            IF buckets[k].power = c.power
            THEN [buckets[k] EXCEPT !.polys =
                    {pc \in @ : pc[1] # c.poly} \cup {<<c.poly, c.constant>>}]
            ELSE buckets[k]]
    ELSE Append(buckets, [power |-> c.power, polys |-> {<<c.poly, c.constant>>}])

RECURSIVE ClassifyAll(_, _, _)
ClassifyAll(args, i, buckets) ==
    IF i > Len(args) THEN buckets
    ELSE ClassifyAll(args, i + 1, BucketPut(buckets, Classify(args[i])))

\* The buckets of the forcing part (lines 269-274).
Theorem6Buckets(nonHomogenous) == ClassifyAll(SumArgs(nonHomogenous), 1, <<>>)

\* The lowest power of n of a bucket in place of the highest.
HighestPoly_Lowest(bucket) == SetMin({pc[1] : pc \in bucket.polys})

HighestPoly(bucket) == SetMax({pc[1] : pc \in bucket.polys})

\* The block of the i-th bucket (i counted from 0): q_i_j for j from the
\* highest degree down to 0, times n^multiplicity and power^n.
BucketBlock(i, bucket, realroots) ==
    LET multiplicity == RootsGet(realroots, bucket.power)
        highestPoly == HighestPoly(bucket)
    IN  [jj \in 1..(highestPoly + 1) |->
            SMono(QSym(i, highestPoly + 1 - jj),
                  multiplicity + highestPoly + 1 - jj, bucket.power)]

Theorem6SolutionBuilder(realroots, nonHomogenous) ==
    LET buckets == Theorem6Buckets(nonHomogenous)
    IN  Flatten([k \in 1..Len(buckets) |-> BucketBlock(k - 1, buckets[k], realroots)])

(***************************************************************************)
(* _solveNonHomogeneous: the recurrence minus s(n) with the template       *)
(* substituted for s(n-i), 0 <= i <= degree, and expanded.  An entry       *)
(* [base, deg, col, coef] stands for  coef * x_col * n^deg * base^n, where *)
(* x_col is the col-th symbol of the template and col = 0 is no symbol;    *)
(* other marks a term that holds factorial(n).                             *)
(***************************************************************************)
RECURSIVE Binom(_, _)
Binom(d, e) == IF e = 0 \/ e = d THEN 1 ELSE Binom(d - 1, e - 1) + Binom(d - 1, e)

REntry(base, deg, col, coef) ==
    [base |-> base, deg |-> deg, col |-> col, coef |-> coef, other |-> FALSE]

\* self._recurrence - s(n)
SolveableRecurrence(rec) == SumAdd(SumOfSeq(rec), MkTerm(-1, 0, 1, <<Call(0, 1)>>))

\* c * n^a * s(n-j) with the monomial x_k n^d b^n put for s: by the binomial
\* theorem c n^a (n-j)^d b^(n-j) = SUM_e c C(d,e) (-j)^(d-e) b^(-j) n^(a+e) b^n.
SubstituteMono(t, mono, k) ==
    LET j == t.calls[1].off
    IN  [ee \in 1..(mono.deg + 1) |->
            REntry(mono.base * t.base, t.npow + ee - 1, k,
                   RDiv(RInt(t.coef * Binom(mono.deg, ee - 1) * IPow(-j, mono.deg - (ee - 1))),
                        RInt(IPow(mono.base, j))))]

\* One term of the solveable recurrence after the substitution loop of
\* lines 414-417 and expand().
SubstituteTerm(t, template) ==
    IF HasS(t)
    THEN Flatten([k \in 1..Len(template) |-> SubstituteMono(t, template[k], k)])
    ELSE <<[REntry(t.base, t.npow, 0, RInt(t.coef)) EXCEPT !.other = t.other]>>

\* The expanded terms of the whole expression; their order plays no role,
\* the coefficients are collected per monomial afterwards.
RECURSIVE SubstituteAll(_, _)
SubstituteAll(S, template) ==
    IF S = {} THEN <<>>
    ELSE LET t == CHOOSE t \in S : TRUE
         IN  SubstituteTerm(t, template) \o SubstituteAll(S \ {t}, template)

Substituted(rec, template) == SubstituteAll(SolveableRecurrence(rec), template)

\* The coefficient of x_col n^deg base^n in the expanded expression.
CoefSum(found) == RSum([i \in 1..Len(found) |-> found[i].coef])

EntryCoef(entries, base, deg, col) ==
    CoefSum(SelectSeq(entries,
                      LAMBDA e : e.base = base /\ e.deg = deg /\ e.col = col
                                 /\ ~e.other))

\* The equation of the bucket of base holds a term that is no polynomial in
\* n: solve_undetermined_coeffs finds n in a coefficient and returns None.
NotPolynomial(entries, base) ==
    \E i \in 1..Len(entries) : entries[i].base = base /\ entries[i].other

EntryBases(entries) == {entries[i].base : i \in 1..Len(entries)}
EntryMaxDeg(entries) == SetMax({entries[i].deg : i \in 1..Len(entries)})

(***************************************************************************)
(* _particularSolutionClassifier and _solveParticularCoefficients: one     *)
(* equation per base, a polynomial in n whose coefficients must all be 0.  *)
(***************************************************************************)
\* The rows of the bucket of one base: one per power of n.
BucketRows(entries, base, nq) ==
    [dd \in 1..(EntryMaxDeg(entries) + 1) |->
        [c \in 1..(nq + 1) |->
            IF c <= nq THEN EntryCoef(entries, base, dd - 1, c)
            ELSE RNeg(EntryCoef(entries, base, dd - 1, 0))]]

\* A base whose terms all cancel has no bucket.
LiveBases(entries, nq) ==
    {b \in EntryBases(entries) :
        \/ NotPolynomial(entries, b)
        \/ \E d \in 0..EntryMaxDeg(entries) : \E c \in 0..nq :
                EntryCoef(entries, b, d, c) # RZero}

\* result.update(res) for the solution res of one bucket: keys are the
\* symbols solved for.  For a system without solution sympy's solve gives
\* the empty list, which is not None and updates nothing.
BucketUpdate(result, nq, res) ==
    IF ~res.consistent THEN result
    ELSE [raised |-> FALSE,
          keys |-> result.keys \cup ((1..nq) \ res.free),
          expr |-> [v \in 1..nq |->
                      IF v \notin res.free THEN res.sol[v] ELSE result.expr[v]]]

\* The loop of lines 375-382 over the buckets.
RECURSIVE SolveBuckets(_, _, _, _)
SolveBuckets(entries, bases, nq, result) ==
    IF bases = {} \/ result.raised THEN result
    ELSE IF NotPolynomial(entries, SetMin(bases)) THEN [result EXCEPT !.raised = TRUE]
    ELSE SolveBuckets(entries, bases \ {SetMin(bases)}, nq,
            BucketUpdate(result, nq,
                         LinSolve(BucketRows(entries, SetMin(bases), nq), nq)))

SolveParticularCoefficients(entries, nq) ==
    SolveBuckets(entries, LiveBases(entries, nq), nq,
                 [raised |-> FALSE, keys |-> {},
                  expr |-> [v \in 1..nq |-> UnitExpr(v, nq)]])

\* solveableRecurrence.subs(variables).simplify() != 0
ResidualNonZero(entries, variables, nq) ==
    \E b \in EntryBases(entries) : \E d \in 0..EntryMaxDeg(entries) :
        \/ RAdd(EntryCoef(entries, b, d, 0),
                RSum([v \in 1..nq |->
                        IF v \in variables.keys
                        THEN RMul(EntryCoef(entries, b, d, v), variables.expr[v][nq + 1])
                        ELSE RZero])) # RZero
        \/ \E v \in (1..nq) \ variables.keys : EntryCoef(entries, b, d, v) # RZero

\* particularSolutionForm.subs(variables): the symbols left without a value
\* stay in the expression (left), the others give numeric monomials.
ParticularSolution(template, variables, nq) ==
    [form |-> NSumOfSeq([k \in 1..nq |->
                  NMono(IF k \in variables.keys THEN variables.expr[k][nq + 1] ELSE RZero,
                        template[k].deg, template[k].base)]),
     left |-> {template[k].sym : k \in (1..nq) \ variables.keys}
             \cup SymbolsLeft(template, variables)]

\* The result of _solveNonHomogeneous: raised, or the closed form; left are
\* the symbols without a value, template and particular the locals.
NonHomogeneousResult(raised, solved, left, template, particular) ==
    [raised |-> raised, solved |-> solved, left |-> left, template |-> template,
     particular |-> particular]

\* Lines 439-445: the initial fit of particular + general solution.
FitParticular(template, particular, fit) ==
    NonHomogeneousResult(fit.raised, fit.solved, particular.left \cup fit.left,
                         template, particular.form)

\* _solveNonHomogeneous without the test of line 433.
CheckResidual_Unchecked(generalSolution, ics, template, entries, variables, particular) ==
    FitParticular(template, particular,
        CalculateClosedFromGeneralSolution(generalSolution, particular.form, ics))

\* Lines 433-445, with the variables of line 429.
CheckResidual(generalSolution, ics, template, entries, variables, particular) ==
    IF ResidualNonZero(entries, variables, Len(template))
    THEN NonHomogeneousResult(TRUE, {}, {}, template, {})
    ELSE FitParticular(template, particular,
            CalculateClosedFromGeneralSolution(generalSolution, particular.form, ics))

\* Lines 429-437, with the variables set.
WithVariables(generalSolution, ics, template, entries, variables) ==
    CheckResidual(generalSolution, ics, template, entries, variables,
                  ParticularSolution(template, variables, Len(template)))

\* Lines 423-445, with the solution of _solveParticularCoefficients.
WithCoefficients(generalSolution, ics, template, entries, solution) ==
    IF solution.raised
    THEN NonHomogeneousResult(TRUE, {}, {}, template, {})
    ELSE WithVariables(generalSolution, ics, template, entries,
            SetFreeVariablesToZero(solution.expr, solution.keys, Len(template)))

\* Lines 414-445, with the substituted recurrence.
WithSubstituted(generalSolution, ics, template, entries) ==
    WithCoefficients(generalSolution, ics, template, entries,
                     SolveParticularCoefficients(entries, Len(template)))

\* Lines 402-445, with the template of line 410.
WithTemplate(rec, generalSolution, ics, template) ==
    WithSubstituted(generalSolution, ics, template, Substituted(rec, template))

SolveNonHomogeneous(rec, realRoots, nonHomogenous, generalSolution, ics) ==
    WithTemplate(rec, generalSolution, ics,
                 Theorem6SolutionBuilder(realRoots, nonHomogenous))

(***************************************************************************)
(* _solve.  The result records what the run leaves behind: the exception   *)
(* raised ("none" when it returns), the closed form, whether self._degree  *)
(* was assigned (line 548) and the locals of the run.                      *)
(***************************************************************************)
Locals(stage, analysis, charEq, realRoots, generalSolution, template, particular) ==
    [analysis |-> analysis, stage |-> stage, charEq |-> charEq,
     realRoots |-> realRoots, generalSolution |-> generalSolution,
     template |-> template, particular |-> particular]

NoLocals == Locals("analysis", AnalysisStart, <<>>, <<>>, <<>>, <<>>, {})

SolveResult(status, assigned, degree, solved, left, locals) ==
    [status |-> status, assigned |-> assigned, degree |-> degree,
     solved |-> solved, left |-> left, locals |-> locals]

\* _solve without the test of line 568.
RootsIncomplete_Unchecked(roots, k) == FALSE

\* sum(realRoots.values()) != self._degree (line 568)
RootsIncomplete(roots, k) == SumMultiplicities(roots) # k

\* Lines 575-577 for a homogeneous recurrence, with the fit made.
SolvedHomogeneous(a, ce, roots, gs, hom) ==
    IF hom.raised
    THEN SolveResult("RecurrenceSolveFailed", TRUE, a.degree, {}, {},
                     Locals("general", a, ce.coefs, roots, gs, <<>>, {}))
    ELSE SolveResult("none", TRUE, a.degree, hom.solved, hom.left,
                     Locals("general", a, ce.coefs, roots, gs, <<>>, {}))

\* Lines 578-579 for a non-homogeneous recurrence.
SolvedNonHomogeneous(a, ce, roots, gs, non) ==
    IF non.raised
    THEN SolveResult("RecurrenceSolveFailed", TRUE, a.degree, {}, {},
                     Locals("particular", a, ce.coefs, roots, gs, non.template,
                            non.particular))
    ELSE SolveResult("none", TRUE, a.degree, non.solved, non.left,
                     Locals("particular", a, ce.coefs, roots, gs, non.template,
                            non.particular))

\* Lines 572-585, with the general solution.
AfterGeneralSolution(rec, ics, a, ce, roots, gs) ==
    IF a.nonHomogenous = {}
    THEN SolvedHomogeneous(a, ce, roots, gs,
            CalculateClosedFromGeneralSolution(gs, {}, ics))
    ELSE SolvedNonHomogeneous(a, ce, roots, gs,
            SolveNonHomogeneous(rec, roots, a.nonHomogenous, gs, ics))

\* Lines 564-585, with the real roots.
AfterRoots(rec, ics, a, ce, rr) ==
    IF RootsIncomplete(rr.roots, a.degree)
    THEN SolveResult("RecurrenceSolveFailed", TRUE, a.degree, {}, {},
                     Locals("roots", a, ce.coefs, rr.roots, <<>>, <<>>, {}))
    ELSE AfterGeneralSolution(rec, ics, a, ce, rr.roots, GetGeneralSolution(rr.roots))

\* Lines 559-585, with the characteristic equation: sympy.roots raises on
\* an equation with a second generator.
AfterCharacteristic(rec, ics, a, ce) ==
    IF ce.raised \/ ~ce.numeric
    THEN SolveResult("Exception", TRUE, a.degree, {}, {},
                     Locals("characteristic", a, ce.coefs, <<>>, <<>>, <<>>, {}))
    ELSE AfterRoots(rec, ics, a, ce, RealRoots(ce.coefs))

\* Lines 548-585, with the result of the analysis.
AfterAnalysis(rec, ics, a) ==
    IF a.raised
    THEN SolveResult("RecurrenceSolveFailed", FALSE, 0, {}, {},
                     Locals("analysis", a, <<>>, <<>>, <<>>, <<>>, {}))
    ELSE IF ~a.linear
    THEN SolveResult("RecurrenceSolveFailed", TRUE, a.degree, {}, {},
                     Locals("analysis", a, <<>>, <<>>, <<>>, <<>>, {}))
    ELSE AfterCharacteristic(rec, ics, a, GetCharacteristicEquation(rec, a.degree))

SolveRun(rec, ics, sel) == AfterAnalysis(rec, ics, AnalyseExpression(rec, sel))

(***************************************************************************)
(* calculateValueFromRecurrence: the loop of lines 631-640.  A value is    *)
(* [sym, val]: sym is TRUE when a call of s was left in the expression     *)
(* (its offset is 0 or above self._degree), val is the integer otherwise.  *)
(***************************************************************************)
IVal(v) == [sym |-> FALSE, val |-> v]
SymVal == [sym |-> TRUE, val |-> 0]

VMul(x, y) ==
    IF (~x.sym /\ x.val = 0) \/ (~y.sym /\ y.val = 0) THEN IVal(0)
    ELSE IF x.sym \/ y.sym THEN SymVal
    ELSE IVal(x.val * y.val)

VAdd(x, y) == IF x.sym \/ y.sym THEN SymVal ELSE IVal(x.val + y.val)

RECURSIVE VPow(_, _)
VPow(x, e) == IF e = 0 THEN IVal(1) ELSE VMul(x, VPow(x, e - 1))

\* One call of s in a term at n = i: replaced by the stored value when its
\* offset is in 1..degree, left as a call of s otherwise.
CallValue(c, memo, i, degree) ==
    IF c.off >= 1 /\ c.off <= degree THEN VPow(memo[i - c.off], c.pow) ELSE SymVal

RECURSIVE CallsValue(_, _, _, _)
CallsValue(cs, memo, i, degree) ==
    IF cs = <<>> THEN IVal(1)
    ELSE VMul(CallValue(Head(cs), memo, i, degree), CallsValue(Tail(cs), memo, i, degree))

RECURSIVE Factorial(_)
Factorial(i) == IF i <= 0 THEN 1 ELSE i * Factorial(i - 1)

TermValue(t, memo, i, degree) ==
    VMul(IVal(t.coef * IPow(i, t.npow) * IPow(t.base, i)
              * (IF t.other THEN Factorial(i) ELSE 1)),
         CallsValue(t.calls, memo, i, degree))

RECURSIVE RecValue(_, _, _, _)
RecValue(rec, memo, i, degree) ==
    IF rec = <<>> THEN IVal(0)
    ELSE VAdd(TermValue(Head(rec), memo, i, degree), RecValue(Tail(rec), memo, i, degree))

\* The loop from i to n; a missing self._solvedValues[i - j] raises
\* KeyError and leaves the values stored so far.
RECURSIVE IterateFrom(_, _, _, _, _)
IterateFrom(rec, memo, i, n, degree) ==
    IF i > n THEN [memo |-> memo, raised |-> FALSE]
    ELSE IF \E j \in 1..degree : (i - j) \notin DOMAIN memo
    THEN [memo |-> memo, raised |-> TRUE]
    ELSE IterateFrom(rec, memo @@ (i :> RecValue(rec, memo, i, degree)), i + 1, n, degree)

(***************************************************************************)
(* _from_sympy.  A text is the sequence of its characters; an index into a *)
(* text counts from 0, as in Python.  An expression to print is a tree     *)
(* [op, text, args]: an atom with its text, or sqrt, pow, sum, prod over   *)
(* the trees args.                                                         *)
(***************************************************************************)
Atom(text) == [op |-> "atom", text |-> text, args |-> <<>>]
SqrtOf(e) == [op |-> "sqrt", text |-> <<>>, args |-> <<e>>]
PowOf(a, b) == [op |-> "pow", text |-> <<>>, args |-> <<a, b>>]
SumOf(a, b) == [op |-> "sum", text |-> <<>>, args |-> <<a, b>>]
ProdOf(a, b) == [op |-> "prod", text |-> <<>>, args |-> <<a, b>>]

Bracketed(text) == <<"(">> \o text \o <<")">>

\* str(expr): sqrt(E) for a square root, B**E for a power, sums and
\* products in brackets where they are an operand.
RECURSIVE Str(_)
Operand(e) == IF e.op \in {"sum", "prod", "pow"} THEN Bracketed(Str(e)) ELSE Str(e)
Str(e) ==
    CASE e.op = "atom" -> e.text
      [] e.op = "sqrt" -> <<"s", "q", "r", "t">> \o Bracketed(Str(e.args[1]))
      [] e.op = "pow" -> Operand(e.args[1]) \o <<"*", "*">> \o Operand(e.args[2])
      [] e.op = "sum" -> Str(e.args[1]) \o <<" ", "+", " ">> \o Str(e.args[2])
      [] OTHER -> Operand(e.args[1]) \o <<"*">> \o Operand(e.args[2])

\* re.sub(r"\*\*", "^", text): the matches are taken from the left and do
\* not overlap.
RECURSIVE ReSubPower(_)
ReSubPower(text) ==
    IF Len(text) < 2 THEN text
    ELSE IF text[1] = "*" /\ text[2] = "*"
    THEN <<"^">> \o ReSubPower(SubSeq(text, 3, Len(text)))
    ELSE <<text[1]>> \o ReSubPower(Tail(text))

\* text.find(pattern): the lowest index of an occurrence, -1 for none.
Occurrences(text, pattern) ==
    {k \in 0..(Len(text) - Len(pattern)) :
        SubSeq(text, k + 1, k + Len(pattern)) = pattern}

Find(text, pattern) ==
    IF Occurrences(text, pattern) = {} THEN -1
    ELSE SetMin(Occurrences(text, pattern))

\* text[a:b] and text[a:] for a >= 0; a negative b counts from the end.
Slice(text, a, b) ==
    SubSeq(text, a + 1, IF b < 0 THEN Len(text) + b ELSE b)
SliceFrom(text, a) ==
    SubSeq(text, (IF a < 0 THEN Len(text) + a ELSE a) + 1, Len(text))

\* text.strip()
RECURSIVE LStrip(_)
LStrip(text) ==
    IF text # <<>> /\ Head(text) = " " THEN LStrip(Tail(text)) ELSE text
RECURSIVE RStrip(_)
RStrip(text) ==
    IF text # <<>> /\ text[Len(text)] = " "
    THEN RStrip(SubSeq(text, 1, Len(text) - 1)) ELSE text
Strip(text) == RStrip(LStrip(text))

\* The scan of lines 86-93 that stops at the first closing bracket.
RECURSIVE EndSqrtIndex_FirstClose(_, _, _)
EndSqrtIndex_FirstClose(text, j, nestCount) ==
    IF j >= Len(text) THEN -1
    ELSE IF text[j + 1] = ")" THEN j + 1
    ELSE EndSqrtIndex_FirstClose(text, j + 1, nestCount)

\* The scan of lines 86-93 from index j: the index after the bracket that
\* closes the first one opened, -1 when the text ends before.
RECURSIVE EndSqrtIndex(_, _, _)
EndSqrtIndex(text, j, nestCount) ==
    IF j >= Len(text) THEN -1
    ELSE IF text[j + 1] = "(" THEN EndSqrtIndex(text, j + 1, nestCount + 1)
    ELSE IF text[j + 1] = ")"
         THEN IF nestCount = 1 THEN j + 1
              ELSE EndSqrtIndex(text, j + 1, nestCount - 1)
    ELSE EndSqrtIndex(text, j + 1, nestCount)

\* Lines 95-97: the text with the sqrt at i, which ends at endSqrtIndex,
\* rewritten.
RewriteSqrt(text, i, endSqrtIndex) ==
    Slice(text, 0, i) \o <<"(">> \o Strip(Slice(text, i + 4, endSqrtIndex))
    \o <<"^", "(", "1", "/", "2", ")", ")">> \o SliceFrom(text, endSqrtIndex)

(***************************************************************************)
(* The inputs: recurrences built from the terms below, with pairwise       *)
(* different monomials, and initial conditions on a block of consecutive   *)
(* indices.  MaxN bounds the index asked of calculateValueFromRecurrence,  *)
(* MaxSolveRuns the executions of _solve on an object without closed form. *)
(***************************************************************************)
MaxN == 3
MaxSolveRuns == 2

S1 == <<Call(1, 1)>>
S2 == <<Call(2, 1)>>

\* c*s(n-1), c*s(n-2) and the forcing terms 2, n, 2^n.
FirstOrder == {MkTerm(c, 0, 1, S1) : c \in {2, 3}}
SecondOrder == {MkTerm(c, 0, 1, S2) : c \in {-2, -1, 1}}
Forcing == {Num(2), NSym, MkTerm(1, 0, 2, <<>>)}

\* n*s(n-1), 3*n*s(n-1), s(n-1)^2, s(n-1)*s(n-2)
NonLinearTerms ==
    {MkTerm(1, 1, 1, S1), MkTerm(3, 1, 1, S1), MkTerm(1, 0, 1, <<Call(1, 2)>>),
     MkTerm(1, 0, 1, <<Call(1, 1), Call(2, 1)>>)}

AtMostOne(S) == {{}} \cup {{t} : t \in S}

\* Sums of constant-coefficient terms with any forcing; sums that hold
\* one of the non-linear terms, with the forcing term 2 or without; and
\* sums with the forcing term factorial(n).
TermSets ==
    {a \cup b \cup f : a \in AtMostOne(FirstOrder), b \in AtMostOne(SecondOrder),
                        f \in SUBSET Forcing}
    \cup {x \cup a \cup b \cup f :
            x \in {{t} : t \in NonLinearTerms},
            a \in AtMostOne({MkTerm(2, 0, 1, S1)}),
            b \in AtMostOne({MkTerm(-1, 0, 1, S2)}),
            f \in AtMostOne({Num(2)})}
    \cup {{FactorialN} \cup a \cup f :
            a \in {{t} : t \in FirstOrder},
            f \in AtMostOne({Num(2), MkTerm(1, 0, 2, <<>>)})}

Starts == {0, 1}
Lengths == {1, 2}
Values == {1, 2}

\* The orders in which str(set) can print the calls of s of a term: only
\* a term with two calls has more than one.
Selections(rec) ==
    IF \E i \in 1..Len(rec) : Len(rec[i].calls) >= 2 THEN {1, 2} ELSE {1}

DistinctMonomials(S) == \A t, u \in S : Mono(t) = Mono(u) => t = u

\* The real roots of the characteristic equation are all integers: no
\* factor with irrational roots is left (such roots need arithmetic in a
\* quadratic field).
IntegerOrComplexRoots(rec) ==
    \A sel \in Selections(rec) :
        LET a == AnalyseExpression(rec, sel)
            ce == GetCharacteristicEquation(rec, a.degree)
        IN  (~a.raised /\ a.linear /\ ~ce.raised /\ ce.numeric)
                => RealRoots(ce.coefs).rest \in {"none", "complex"}

\* What sympify(...).expand() can give for the text of a recurrence that
\* mentions s: a sum of two terms or more, a product, or a call of s.
Recurrences ==
    {SumArgs(S) : S \in
        {S \in TermSets :
            /\ DistinctMonomials(S)
            /\ \E t \in S : HasS(t)
            /\ Cardinality(S) = 1 => \A t \in S : Func(t) \in {"Mul", "s"}
            /\ IntegerOrComplexRoots(SumArgs(S))}}

ConditionSets ==
    UNION {{[k \in 1..len |-> <<start + k - 1, v[k]>>] : v \in [1..len -> Values]} :
             start \in Starts, len \in Lengths}

(***************************************************************************)
(* The state of one RecurrenceRelation object.                             *)
(***************************************************************************)
VARIABLES
    recurrence,         \* self._recurrence
    initialConditions,  \* self._initialConditions, items in insertion order
    solvedValues,       \* self._solvedValues
    closedForm,         \* self._closedForm; set = FALSE stands for None
    degree,             \* self._degree; -1 while the attribute does not exist
    runs,               \* the number of executions of _solve
    locals,             \* the locals of the last execution of _solve
    outcome,            \* the last call: what was called and what it gave
    formatter,          \* a call of _from_sympy: its position and its locals
    batch,              \* the batch driver: its position and its locals
    twin,               \* a second object built from the same text, and the process
    zeroing             \* a call of _set_free_variables_to_zero on its own

\* The RecurrenceRelation object and what is recorded of the calls on it.
objectVars == <<recurrence, initialConditions, solvedValues, closedForm, degree,
                runs, locals, outcome>>

\* What the operations of the object leave alone.
utilityVars == <<formatter, batch, twin, zeroing>>

vars == <<recurrence, initialConditions, solvedValues, closedForm, degree,
          runs, locals, outcome, formatter, batch, twin, zeroing>>

NoClosedForm == [set |-> FALSE, form |-> {}, left |-> {}]

Outcome(op, n, status) == [op |-> op, n |-> n, status |-> status]

\* No call of _from_sympy is under way.
NoFormatter ==
    [pc |-> "idle", expr |-> Atom(<<>>), expressionString |-> <<>>, i |-> -1,
     iterations |-> 0]

\* The batch driver is not running.
NoBatch ==
    [pc |-> "idle", files |-> <<>>, check |-> 0, relations |-> <<>>, k |-> 0,
     logged |-> {}, written |-> {}]

\* No second object is built.
NoTwin ==
    [pc |-> "idle",
     first |-> [called |-> FALSE, status |-> "none", form |-> {}, symbols |-> <<>>],
     second |-> [called |-> FALSE, status |-> "none", form |-> {}, symbols |-> <<>>],
     others |-> 0, globals |-> {}]

\* No call of _set_free_variables_to_zero on its own.
NoZeroing ==
    [pc |-> "idle", solution |-> [keys |-> {}, expr |-> <<>>],
     result |-> [keys |-> {}, expr |-> <<>>]]

\* __init__ (lines 26-50)
Init ==
    /\ recurrence \in Recurrences
    /\ initialConditions \in ConditionSets
    /\ solvedValues = [i \in {initialConditions[k][1] : k \in 1..Len(initialConditions)} |->
                          IVal(initialConditions[CHOOSE k \in 1..Len(initialConditions) :
                                    initialConditions[k][1] = i][2])]
    /\ closedForm = NoClosedForm
    /\ degree = -1
    /\ runs = 0
    /\ locals = NoLocals
    /\ outcome = Outcome("init", 0, "none")
    /\ formatter = NoFormatter
    /\ batch = NoBatch
    /\ twin = NoTwin
    /\ zeroing = NoZeroing

\* getLowerBoundDomain
GetLowerBoundDomain ==
    SetMin({initialConditions[k][1] : k \in 1..Len(initialConditions)})

(***************************************************************************)
(* The operations.                                                         *)
(***************************************************************************)
\* solve() without the test of line 594: _solve is executed on every call.
AfterSolve_Recomputing(run) ==
    /\ closedForm' = IF run.status = "none"
                      THEN [set |-> TRUE, form |-> run.solved, left |-> run.left]
                      ELSE closedForm
    /\ degree' = IF run.assigned THEN run.degree ELSE degree
    /\ runs' = runs + 1
    /\ locals' = run.locals

\* solve() storing whatever _solve left when it raised.
AfterSolve_KeepingFailure(run) ==
    /\ closedForm' = IF ~closedForm.set
                      THEN [set |-> TRUE, form |-> run.solved, left |-> run.left]
                      ELSE closedForm
    /\ degree' = IF ~closedForm.set /\ run.assigned THEN run.degree ELSE degree
    /\ runs' = IF closedForm.set THEN runs ELSE runs + 1
    /\ locals' = IF closedForm.set THEN locals ELSE run.locals

\* What solve() does to the object (lines 594-597): run gives the
\* execution of _solve it makes when nothing is cached.
AfterSolve(run) ==
    /\ closedForm' = IF ~closedForm.set /\ run.status = "none"
                      THEN [set |-> TRUE, form |-> run.solved, left |-> run.left]
                      ELSE closedForm
    /\ degree' = IF ~closedForm.set /\ run.assigned THEN run.degree ELSE degree
    /\ runs' = IF closedForm.set THEN runs ELSE runs + 1
    /\ locals' = IF closedForm.set THEN locals ELSE run.locals

SolveStatus(run) == IF closedForm.set THEN "none" ELSE run.status

\* A call of solve() by op, run being the execution of _solve it makes when
\* nothing is cached.
SolveCall(op, run) ==
    /\ AfterSolve(run)
    /\ outcome' = Outcome(op, 0, SolveStatus(run))

\* solve()
Solve ==
    /\ closedForm.set \/ runs < MaxSolveRuns
    /\ \E sel \in Selections(recurrence) :
          SolveCall("solve", SolveRun(recurrence, initialConditions, sel))
    /\ UNCHANGED <<recurrence, initialConditions, solvedValues>>
    /\ UNCHANGED utilityVars

\* calculateValueFromSolved(n): self.solve(), then the closed form at n. The
\* call changes nothing that depends on n; SolvedValue(n) is what it returns.
CalculateValueFromSolved ==
    /\ closedForm.set \/ runs < MaxSolveRuns
    /\ \E sel \in Selections(recurrence) :
          SolveCall("calculateValueFromSolved",
                    SolveRun(recurrence, initialConditions, sel))
    /\ UNCHANGED <<recurrence, initialConditions, solvedValues>>
    /\ UNCHANGED utilityVars

\* The value calculateValueFromSolved(n) returns when it does not raise.
SolvedValue(n) == EvalClosed(closedForm.form, n)

\* calculateValueFromRecurrence(n) on an object whose line 47 does not copy:
\* self._solvedValues is the dictionary of the initial conditions itself.
CalculateValueFromRecurrence_Aliased ==
    /\ \E n \in 0..MaxN :
        LET startSolving == SetMax(DOMAIN solvedValues) + 1
            it == IterateFrom(recurrence, solvedValues, startSolving, n, degree)
        IN  IF n \in DOMAIN solvedValues
            THEN /\ solvedValues' = solvedValues
                 /\ outcome' = Outcome("calculateValueFromRecurrence", n, "none")
            ELSE IF startSolving > n \/ degree = -1
            THEN /\ solvedValues' = solvedValues
                 /\ outcome' = Outcome("calculateValueFromRecurrence", n, "Exception")
            ELSE /\ solvedValues' = it.memo
                 /\ outcome' = Outcome("calculateValueFromRecurrence", n,
                                        IF it.raised THEN "Exception" ELSE "none")
    /\ initialConditions' =
          LET low == SetMin(DOMAIN solvedValues')
          IN  [k \in 1..Cardinality(DOMAIN solvedValues') |->
                  <<low + k - 1, solvedValues'[low + k - 1].val>>]
    /\ UNCHANGED <<recurrence, closedForm, degree, runs, locals>>
    /\ UNCHANGED utilityVars

\* calculateValueFromRecurrence(n)
CalculateValueFromRecurrence ==
    /\ \E n \in 0..MaxN :
        LET startSolving == SetMax(DOMAIN solvedValues) + 1
            it == IterateFrom(recurrence, solvedValues, startSolving, n, degree)
        IN  IF n \in DOMAIN solvedValues
            THEN /\ solvedValues' = solvedValues
                 /\ outcome' = Outcome("calculateValueFromRecurrence", n, "none")
            ELSE IF startSolving > n \/ degree = -1
            THEN /\ solvedValues' = solvedValues
                 /\ outcome' = Outcome("calculateValueFromRecurrence", n, "Exception")
            ELSE /\ solvedValues' = it.memo
                 /\ outcome' = Outcome("calculateValueFromRecurrence", n,
                                        IF it.raised THEN "Exception" ELSE "none")
    /\ UNCHANGED <<recurrence, initialConditions, closedForm, degree, runs, locals>>
    /\ UNCHANGED utilityVars

\* The value calculateValueFromRecurrence(n) returns when it does not raise.
IteratedValue(n) == solvedValues[n]

Next == Solve \/ CalculateValueFromSolved \/ CalculateValueFromRecurrence

Spec == Init /\ [][Next]_vars

(***************************************************************************)
(* _from_sympy, step by step: the substitution and the first find (lines   *)
(* 80-82), one pass of the while loop per step (lines 83-98), the return   *)
(* (line 100).  The expressions printed are square roots, powers, sums and *)
(* products over n, 5 and s(n), nested up to three deep.                   *)
(***************************************************************************)
Sqrt4 == <<"s", "q", "r", "t">>

Atoms == {Atom(<<"n">>), Atom(<<"5">>), Atom(<<"s", "(", "n", ")">>)}
Simple == Atoms \cup {SqrtOf(a) : a \in Atoms}
Compound ==
    {PowOf(a, Atom(<<"n">>)) : a \in Simple}
    \cup {SumOf(a, b) : a \in Simple, b \in Simple}
    \cup {ProdOf(Atom(<<"5">>), b) : b \in Simple}
Nested ==
    {SqrtOf(c) : c \in Simple \cup Compound}
    \cup {PowOf(c, Atom(<<"n">>)) : c \in Compound}
    \cup {SumOf(SqrtOf(c), d) : c \in Compound, d \in Simple}
Printed == Simple \cup Compound \cup Nested

\* The object a formatter belongs to: s(n) = 2 s(n-1), s(0) = 1.
Constructed ==
    /\ recurrence = <<MkTerm(2, 0, 1, S1)>>
    /\ initialConditions = << <<0, 1>> >>
    /\ solvedValues = (0 :> IVal(1))
    /\ closedForm = NoClosedForm
    /\ degree = -1
    /\ runs = 0
    /\ locals = NoLocals
    /\ outcome = Outcome("init", 0, "none")

FormatInit ==
    /\ Constructed
    /\ formatter \in {[NoFormatter EXCEPT !.pc = "call", !.expr = e] : e \in Printed}
    /\ batch = NoBatch
    /\ twin = NoTwin
    /\ zeroing = NoZeroing

\* The formatter with text as its expressionString after lines 80-82.
Started(f, text) ==
    [f EXCEPT !.pc = "loop", !.expressionString = text, !.i = Find(text, Sqrt4)]

\* Lines 80-82
FromSympy ==
    /\ formatter.pc = "call"
    /\ formatter' = Started(formatter, ReSubPower(Str(formatter.expr)))
    /\ UNCHANGED <<objectVars, batch, twin, zeroing>>

\* The formatter with text as its expressionString after lines 97-98.
Rewritten(f, text) ==
    [f EXCEPT !.expressionString = text, !.i = Find(text, Sqrt4),
              !.iterations = @ + 1]

\* One pass of the loop of lines 83-98
SqrtLoop ==
    /\ formatter.pc = "loop"
    /\ formatter.i # -1
    /\ formatter' = Rewritten(formatter,
            RewriteSqrt(formatter.expressionString, formatter.i,
                        EndSqrtIndex(formatter.expressionString, formatter.i, 0)))
    /\ UNCHANGED <<objectVars, batch, twin, zeroing>>

\* Line 100
FromSympyReturn ==
    /\ formatter.pc = "loop"
    /\ formatter.i = -1
    /\ formatter' = [formatter EXCEPT !.pc = "done"]
    /\ UNCHANGED <<objectVars, batch, twin, zeroing>>

FormatNext == FromSympy \/ SqrtLoop \/ FromSympyReturn

FormatSpec == FormatInit /\ [][FormatNext]_vars

(***************************************************************************)
(* The parser and the batch driver.  A file is the sequence of its lines;  *)
(* a line is what the pattern of line 18 of the parser finds in it: the    *)
(* key n, a key of digits, or nothing, and the text after the = sign,      *)
(* given by the terms it stands for.  The driver reads the files (lines    *)
(* 54-59 of RecurrenceRelationSolver.py), then solves, verifies and writes *)
(* one relation per pass of its second loop (lines 62-90); the variables   *)
(* of the object hold r, the relation of the last pass.                    *)
(***************************************************************************)
RecurrenceLine(eq) == [key |-> "n", index |-> 0, eq |-> eq]
ConditionLine(k, v) == [key |-> "digits", index |-> k, eq |-> <<Num(v)>>]
OtherLine == [key |-> "none", index |-> 0, eq |-> <<>>]

\* s(n)
SN == MkTerm(1, 0, 1, <<Call(0, 1)>>)

\* eq += "-s(n)" (line 52), as the constructor's sympify and expand read it.
AppendMinusSN(eq) == SumArgs(SumAdd(SumOfSeq(eq), [SN EXCEPT !.coef = -1]))

\* The text kept for the line s(n) = eq (lines 48-55).
ParseEquation(eq) == AppendMinusSN(eq)

\* parsed[n] = eq for a key of digits: a key already there keeps its place
\* and takes the new text.
DictSet(items, k, v) ==
    IF \E i \in 1..Len(items) : items[i][1] = k
    THEN [i \in 1..Len(items) |-> IF items[i][1] = k THEN <<k, v>> ELSE items[i]]
    ELSE Append(items, <<k, v>>)

ParseStart == [found |-> FALSE, recurrence |-> <<>>, conditions |-> <<>>]

\* One pass of the loop of lines 32-55.
ParseLine(parsed, line) ==
    CASE line.key = "none" -> parsed
      [] line.key = "n" ->
            [parsed EXCEPT !.found = TRUE, !.recurrence = ParseEquation(line.eq)]
      [] OTHER ->
            [parsed EXCEPT !.conditions = DictSet(@, line.index, line.eq[1].coef)]

RECURSIVE ParseLines(_, _, _)
ParseLines(data, i, parsed) ==
    IF i > Len(data) THEN parsed
    ELSE ParseLines(data, i + 1, ParseLine(parsed, data[i]))

\* Lines 59-60: parsed.pop("n") raises KeyError when no line had the key n.
Popped(parsed) ==
    [raised |-> ~parsed.found, recurrence |-> parsed.recurrence,
     initialConditions |-> parsed.conditions]

\* parse_recurrence(data)
ParseRecurrence(data) == Popped(ParseLines(data, 1, ParseStart))

\* dict(self._initialConditions) (line 47)
SolvedValuesOf(ics) ==
    [i \in {ics[k][1] : k \in 1..Len(ics)} |->
        IVal(ics[CHOOSE k \in 1..Len(ics) : ics[k][1] = i][2])]

\* tolerance (line 61), for the precision 4 that is the default.
Tolerance == <<1, 10000>>

\* calculateValueFromRecurrence(n) on the table memo of an object of
\* degree k: the table afterwards, and whether the call raised.
ValueFromRecurrence(rec, memo, k, n) ==
    IF n \in DOMAIN memo THEN [memo |-> memo, raised |-> FALSE]
    ELSE IF SetMax(DOMAIN memo) + 1 > n \/ k = -1
    THEN [memo |-> memo, raised |-> TRUE]
    ELSE IterateFrom(rec, memo, SetMax(DOMAIN memo) + 1, n, k)

Verification(memo, status, n) == [memo |-> memo, status |-> status, n |-> n]

\* abs(iterative_result - solved_result) >= tolerance (line 77)
TooFar(iterative_result, solved_result) ==
    ~RLess(RAbs(RSub(RInt(iterative_result.val), solved_result)), Tolerance)

\* The loop of lines 74-83 from index i, end excluded: "verified" when it
\* ends without failure, "failed" after the break of line 83, "Exception"
\* when calculateValueFromRecurrence or the comparison of line 77 raises
\* (the comparison raises on a value that still holds a call of s).
RECURSIVE Verify(_, _, _, _, _, _)
VerifyStep(rec, it, k, form, i, end) ==
    IF it.raised THEN Verification(it.memo, "Exception", i)
    ELSE IF it.memo[i].sym THEN Verification(it.memo, "Exception", i)
    ELSE IF TooFar(it.memo[i], EvalClosed(form, i))
    THEN Verification(it.memo, "failed", i)
    ELSE Verify(rec, it.memo, k, form, i + 1, end)
Verify(rec, memo, k, form, i, end) ==
    IF i >= end THEN Verification(memo, "verified", i)
    ELSE VerifyStep(rec, ValueFromRecurrence(rec, memo, k, i), k, form, i, end)

\* The driver that writes whatever the verification found.
Writes_Unverified(status, verification) ==
    status = "none" /\ verification.status # "Exception"

\* Lines 85-90: the output file is written unless failed is set.
Writes(status, verification) == status = "none" /\ verification.status = "verified"

\* The files: a recurrence with its condition; the same with s(n) on the
\* right-hand side as well; conditions only; a condition given twice and a
\* line of another kind; a product of n and s(n-1); an order of 2 with a
\* single condition.
Files ==
    { << RecurrenceLine(<<MkTerm(2, 0, 1, S1)>>), ConditionLine(0, 1) >>,
      << RecurrenceLine(<<MkTerm(2, 0, 1, S1), SN>>), ConditionLine(0, 1) >>,
      << ConditionLine(0, 1), ConditionLine(1, 2) >>,
      << OtherLine, ConditionLine(0, 1), ConditionLine(0, 2),
         RecurrenceLine(<<MkTerm(3, 0, 1, S1), SN>>) >>,
      << RecurrenceLine(<<MkTerm(3, 1, 1, S1), SN>>), ConditionLine(0, 1) >>,
      << RecurrenceLine(<<MkTerm(1, 0, 1, S1), MkTerm(2, 0, 1, S2), SN>>),
         ConditionLine(0, 1) >> }

MaxFiles == 2
MaxCheck == 2

\* Before the first pass of the second loop there is no relation r.
NoObject ==
    /\ recurrence = <<>>
    /\ initialConditions = <<>>
    /\ solvedValues = <<>>
    /\ closedForm = NoClosedForm
    /\ degree = -1
    /\ runs = 0
    /\ locals = NoLocals
    /\ outcome = Outcome("init", 0, "none")

FileLists == UNION {[1..len -> Files] : len \in 1..MaxFiles}

\* main, before the loop of line 56: the files the glob found and
\* args.check.
BatchInit ==
    /\ NoObject
    /\ formatter = NoFormatter
    /\ twin = NoTwin
    /\ zeroing = NoZeroing
    /\ batch \in {[NoBatch EXCEPT !.pc = "read", !.files = f, !.check = c, !.k = 1] :
                    f \in FileLists, c \in 0..MaxCheck}

Relation(file, parsed) ==
    [file |-> file, recurrence |-> parsed.recurrence,
     initialConditions |-> parsed.initialConditions]

\* The driver after parse_recurrence on file b.k gave parsed: a KeyError is
\* not caught and ends main.
Read(b, parsed) ==
    IF parsed.raised THEN [b EXCEPT !.pc = "stopped"]
    ELSE [b EXCEPT !.relations = Append(@, Relation(b.k, parsed)),
                   !.k = IF b.k = Len(b.files) THEN 1 ELSE @ + 1,
                   !.pc = IF b.k = Len(b.files) THEN "solve" ELSE "read"]

\* One pass of the loop of lines 56-59
ReadFile ==
    /\ batch.pc = "read"
    /\ batch' = Read(batch, ParseRecurrence(batch.files[batch.k]))
    /\ UNCHANGED objectVars
    /\ UNCHANGED <<formatter, twin, zeroing>>

\* The loop of lines 74-83 on r after the solve run: not entered when the
\* solve raised (continue, line 69).
VerificationOf(rel, run, check) ==
    IF run.status # "none"
    THEN Verification(SolvedValuesOf(rel.initialConditions), "skipped", 0)
    ELSE Verify(rel.recurrence, SolvedValuesOf(rel.initialConditions), run.degree,
                run.solved,
                SetMin({rel.initialConditions[k][1] : k \in 1..Len(rel.initialConditions)}),
                SetMin({rel.initialConditions[k][1] : k \in 1..Len(rel.initialConditions)})
                    + check)

\* The last call on r in a pass of the loop.
LastCall(run, verification) ==
    CASE run.status # "none" -> Outcome("solve", 0, run.status)
      [] verification.status = "Exception" ->
            Outcome("calculateValueFromRecurrence", verification.n, "Exception")
      [] verification.status = "failed" ->
            Outcome("calculateValueFromSolved", verification.n, "none")
      [] OTHER -> Outcome("solve", 0, "none")

\* The driver after a pass on relation b.k: an error is logged when the
\* solve raised (lines 67-68) or the verification failed (lines 79-82); an
\* exception of the verification is not caught and ends main.
Passed(b, rel, run, verification) ==
    [b EXCEPT
        !.logged = IF run.status # "none" \/ verification.status = "failed"
                   THEN @ \cup {rel.file} ELSE @,
        !.written = IF Writes(run.status, verification) THEN @ \cup {rel.file} ELSE @,
        !.k = @ + 1,
        !.pc = IF verification.status = "Exception" THEN "stopped"
               ELSE IF b.k = Len(b.relations) THEN "end" ELSE "solve"]

\* A pass of the loop of lines 62-90 on rel, run being the execution of
\* _solve that r.solve() makes and verification what the loop of lines
\* 74-83 gives.
Pass(rel, run, verification) ==
    /\ recurrence' = rel.recurrence
    /\ initialConditions' = rel.initialConditions
    /\ solvedValues' = verification.memo
    /\ closedForm' = IF run.status = "none"
                      THEN [set |-> TRUE, form |-> run.solved, left |-> run.left]
                      ELSE NoClosedForm
    /\ degree' = IF run.assigned THEN run.degree ELSE -1
    /\ runs' = 1
    /\ locals' = run.locals
    /\ outcome' = LastCall(run, verification)
    /\ batch' = Passed(batch, rel, run, verification)

PassOn(rel, run) == Pass(rel, run, VerificationOf(rel, run, batch.check))

\* One pass of the loop of lines 62-90
ProcessRelation ==
    /\ batch.pc = "solve"
    /\ \E sel \in Selections(batch.relations[batch.k].recurrence) :
          PassOn(batch.relations[batch.k],
                 SolveRun(batch.relations[batch.k].recurrence,
                          batch.relations[batch.k].initialConditions, sel))
    /\ UNCHANGED <<formatter, twin, zeroing>>

BatchNext == ReadFile \/ ProcessRelation

BatchSpec == BatchInit /\ [][BatchNext]_vars

(***************************************************************************)
(* Several objects in one process.  The object of the variables above is   *)
(* the first of two built from the same text; twin holds what is recorded  *)
(* of the second one, the symbols sympy.var has put into the global        *)
(* namespace of the process so far, and how many other objects were        *)
(* solved.  Every execution of _solve reads the order of its sets anew.    *)
(***************************************************************************)
MaxOthers == 1

\* sympy.var(varname) (lines 159 and 287): the symbol of that name, whether
\* or not a symbol of that name was made before; here with a new symbol
\* for a name already in use.
SympyVar_Fresh(sym, globals) ==
    IF sym \in globals THEN [sym EXCEPT !.i = @ + Cardinality(globals)] ELSE sym

SympyVar(sym, globals) == sym

\* The symbols an execution of _solve registers, in the order of their
\* registration: those of the general solution, then those of the template.
Registered(run) ==
    CtxSymbols(run.locals.generalSolution) \o CtxSymbols(run.locals.template)

\* The symbols the execution gets for them in a process with globals.
Assigned(run, globals) ==
    [k \in 1..Len(Registered(run)) |-> SympyVar(Registered(run)[k], globals)]

\* What is recorded of a solve() on an object: whether it was called, what
\* it raised, the closed form it stored and the symbols it got.
Solved(run, globals) ==
    [called |-> TRUE, status |-> run.status,
     form |-> IF run.status = "none" THEN run.solved ELSE {},
     symbols |-> Assigned(run, globals)]



\* The other objects: s(n) = 3 s(n-1) + n with s(0) = 1, and
\* s(n) = 2 s(n-1) - s(n-2) with s(0) = 1, s(1) = 2.
Others ==
    {[recurrence |-> SumArgs({MkTerm(3, 0, 1, S1), NSym}),
      initialConditions |-> << <<0, 1>> >>],
     [recurrence |-> SumArgs({MkTerm(2, 0, 1, S1), MkTerm(-1, 0, 1, S2)}),
      initialConditions |-> << <<0, 1>>, <<1, 2>> >>]}

TwinInit ==
    /\ recurrence \in Recurrences
    /\ initialConditions \in ConditionSets
    /\ solvedValues = SolvedValuesOf(initialConditions)
    /\ closedForm = NoClosedForm
    /\ degree = -1
    /\ runs = 0
    /\ locals = NoLocals
    /\ outcome = Outcome("init", 0, "none")
    /\ formatter = NoFormatter
    /\ batch = NoBatch
    /\ twin = [NoTwin EXCEPT !.pc = "built"]
    /\ zeroing = NoZeroing

\* twin after an execution of _solve on the first object, the second one
\* or another one.
TwinAfter(t, which, run) ==
    [t EXCEPT !.first = IF which = "first" THEN Solved(run, t.globals) ELSE @,
              !.second = IF which = "second" THEN Solved(run, t.globals) ELSE @,
              !.others = IF which = "other" THEN @ + 1 ELSE @,
              !.globals = @ \cup Range(Assigned(run, t.globals))]

\* solve() on the first object
SolveFirst ==
    /\ twin.pc = "built"
    /\ ~twin.first.called
    /\ \E sel \in Selections(recurrence) :
          /\ SolveCall("solve", SolveRun(recurrence, initialConditions, sel))
          /\ twin' = TwinAfter(twin, "first",
                               SolveRun(recurrence, initialConditions, sel))
    /\ UNCHANGED <<recurrence, initialConditions, solvedValues, formatter, batch,
                   zeroing>>

\* solve() on the second object, built from the text of the first
SolveSecond ==
    /\ twin.pc = "built"
    /\ ~twin.second.called
    /\ \E sel \in Selections(recurrence) :
          twin' = TwinAfter(twin, "second",
                            SolveRun(recurrence, initialConditions, sel))
    /\ UNCHANGED <<objectVars, formatter, batch, zeroing>>

\* solve() on another object
SolveOther ==
    /\ twin.pc = "built"
    /\ twin.others < MaxOthers
    /\ \E r \in Others :
          twin' = TwinAfter(twin, "other",
                            SolveRun(r.recurrence, r.initialConditions, 1))
    /\ UNCHANGED <<objectVars, formatter, batch, zeroing>>

TwinNext == SolveFirst \/ SolveSecond \/ SolveOther

TwinSpec == TwinInit /\ [][TwinNext]_vars

(***************************************************************************)
(* _set_free_variables_to_zero on its own.  The solutions are those a      *)
(* linear solver returns over MaxSymbols symbols: a symbol of the mapping   *)
(* is its own value, or an expression in symbols that are their own value  *)
(* or have no value.                                                       *)
(***************************************************************************)
MaxSymbols == 3

\* The expressions in the symbols of over: each with the coefficient 0 or
\* 1, plus 0, 2 or -1/2.
SolutionRows(over) ==
    {[c \in 1..(MaxSymbols + 1) |->
        IF c = MaxSymbols + 1 THEN k ELSE IF c \in chosen THEN ROne ELSE RZero] :
        chosen \in SUBSET over, k \in {RZero, RInt(2), RDiv(RInt(-1), RInt(2))}}

\* The solutions with the keys keys of which determined have an expression
\* as value and the others themselves.
SolutionsWith(keys, determined) ==
    {[keys |-> keys,
      expr |-> [k \in keys |->
                  IF k \in determined THEN s[k] ELSE UnitExpr(k, MaxSymbols)]] :
        s \in [determined -> SolutionRows((1..MaxSymbols) \ determined)]}

Solutions ==
    UNION {SolutionsWith(kd[1], kd[2]) :
             kd \in {kd \in (SUBSET (1..MaxSymbols)) \X (SUBSET (1..MaxSymbols)) :
                        kd[1] # {} /\ kd[2] \subseteq kd[1]}}

ZeroInit ==
    /\ Constructed
    /\ formatter = NoFormatter
    /\ batch = NoBatch
    /\ twin = NoTwin
    /\ zeroing \in {[NoZeroing EXCEPT !.pc = "call", !.solution = s] : s \in Solutions}

\* The call on the solution drawn.
SetFreeVariables ==
    /\ zeroing.pc = "call"
    /\ zeroing' = [zeroing EXCEPT
            !.pc = "done",
            !.result = SetFreeVariablesToZero(zeroing.solution.expr,
                                              zeroing.solution.keys, MaxSymbols)]
    /\ UNCHANGED <<objectVars, formatter, batch, twin>>

ZeroNext == SetFreeVariables

ZeroSpec == ZeroInit /\ [][ZeroNext]_vars

(***************************************************************************)
(* Properties.                                                             *)
(***************************************************************************)
SolveCalls == {"solve", "calculateValueFromSolved"}
ConditionIndices == {initialConditions[k][1] : k \in 1..Len(initialConditions)}

\* C1: once solve() has succeeded, for every index n at or above the lowest
\* initial-condition index, calculateValueFromSolved(n) and
\* calculateValueFromRecurrence(n) differ by less than 10^-4: every value
\* the iteration has stored is a number within 10^-4 of the closed form.
C1_ClosedFormMatchesIteration ==
    closedForm.set =>
        \A n \in DOMAIN solvedValues :
            n >= GetLowerBoundDomain =>
                /\ ~IteratedValue(n).sym
                /\ RLess(RAbs(RSub(SolvedValue(n), RInt(IteratedValue(n).val))), Tolerance)

\* C2: for every solved recurrence and every initial condition (i, v) the
\* closed form at n = i is exactly v, also when the system of the initial
\* conditions leaves p symbols free and they are set to zero.
C2_ClosedFormMeetsInitialConditions ==
    closedForm.set =>
        \A k \in 1..Len(initialConditions) :
            SolvedValue(initialConditions[k][1]) = RInt(initialConditions[k][2])

\* A solved recurrence of order 2 with a single initial condition: one p
\* symbol was free.
C2_Witness ==
    /\ closedForm.set
    /\ Len(initialConditions) < Len(locals.generalSolution)
    /\ runs = 1

\* C3: once solve() has succeeded, a later solve() or
\* calculateValueFromSolved() leaves the cached closed form as it is, does
\* not execute _solve again, and returns without raising.
C3_SolvedIsCached ==
    [][closedForm.set =>
         /\ closedForm' = closedForm
         /\ runs' = runs
         /\ locals' = locals
         /\ outcome'.op \in SolveCalls => outcome'.status = "none"]_vars

\* solve() returned on an object whose closed form was there before: the
\* iteration has stored values, which it only does after a first solve.
C3_Witness ==
    /\ closedForm.set
    /\ outcome = Outcome("solve", 0, "none")
    /\ runs = 1
    /\ DOMAIN solvedValues # ConditionIndices

\* The discriminant of a characteristic equation r^2 + b r + c.
Discriminant(coefs) == coefs[2] * coefs[2] - 4 * coefs[3]

\* C4: when the multiplicities of the real roots do not sum to the order k
\* (the characteristic equation has complex roots) solve() raises
\* RecurrenceSolveFailed and there is no closed form; every closed form
\* comes from a roots map whose multiplicities sum to k.
C4_RootsMustSumToOrder ==
    /\ closedForm.set => SumMultiplicities(locals.realRoots) = degree
    /\ (/\ runs > 0
        /\ locals.stage \notin {"analysis", "characteristic"}
        /\ \/ SumMultiplicities(locals.realRoots) # degree
           \/ Len(locals.charEq) = 3 /\ Discriminant(locals.charEq) < 0)
       => /\ ~closedForm.set
          /\ outcome.op \in SolveCalls => outcome.status = "RecurrenceSolveFailed"

\* solve() raised on r^2 + 1 = 0 with a forcing term.
C4_Witness ==
    /\ outcome = Outcome("solve", 0, "RecurrenceSolveFailed")
    /\ locals.charEq = <<1, 0, 1>>
    /\ locals.realRoots = <<>>
    /\ locals.analysis.nonHomogenous # {}
    /\ ~closedForm.set

\* A term that makes a recurrence non-linear: s under a power other than 1,
\* two factors that mention s, or a factor in n next to a factor with s.
NonLinearTerm(t) ==
    /\ HasS(t)
    /\ \/ \E i \in 1..Len(t.calls) : t.calls[i].pow # 1
       \/ Len(t.calls) >= 2
       \/ t.npow > 0
       \/ t.base # 1

NonLinear(rec) == \E i \in 1..Len(rec) : NonLinearTerm(rec[i])

\* C5: whenever some term of the recurrence is non-linear, the analyser
\* marks the recurrence non-linear and solve() gives no closed form.
C5_NonLinearIsRejected ==
    (runs > 0 /\ NonLinear(recurrence)) =>
        /\ ~locals.analysis.linear
        /\ ~closedForm.set

\* C6: the analyser puts exactly the terms that mention s in the
\* homogeneous part and the others in the forcing part, so that the two
\* parts add up to the analysed expression; a recurrence that is a single
\* product is one term, and goes to the homogeneous part as a whole. (An
\* analysis that stopped at a non-linear term is left aside.)
C6_AnalysisSplitsTheTerms ==
    (runs > 0 /\ ~locals.analysis.raised /\ ~locals.analysis.broke) =>
        /\ locals.analysis.homogenous = {t \in Range(recurrence) : HasS(t)}
        /\ locals.analysis.nonHomogenous = {t \in Range(recurrence) : ~HasS(t)}

\* The offsets j of the calls s(n-j) of a recurrence.
Offsets(rec) ==
    UNION {{rec[i].calls[c].off : c \in 1..Len(rec[i].calls)} : i \in 1..Len(rec)}

\* C7: the order the analyser computes is the largest offset j of the
\* calls s(n-j) of the recurrence, whatever the order of the terms.
C7_OrderIsLargestOffset ==
    (runs > 0 /\ ~locals.analysis.raised) =>
        /\ locals.analysis.degree = SetMax(Offsets(recurrence))
        /\ degree = SetMax(Offsets(recurrence))

\* The coefficient c_j of s(n-j) in a linear recurrence: 0 when no term
\* holds s(n-j).
Coefficient(rec, j) ==
    LET at == {i \in 1..Len(rec) : rec[i].calls = <<Call(j, 1)>>}
    IN  IF at = {} THEN 0 ELSE rec[CHOOSE i \in at : TRUE].coef

\* r^k - SUM c_j r^(k-j), coefficients from r^k down to r^0.
ExpectedCharacteristic(rec) ==
    [i \in 1..(SetMax(Offsets(rec)) + 1) |->
        IF i = 1 THEN 1 ELSE -Coefficient(rec, i - 1)]

\* C8: for a linear recurrence of order k the characteristic equation is
\* r^k - SUM_{j=1..k} c_j r^(k-j), with c_j = 1 for a bare s(n-j) and 0
\* for an offset that does not occur; forcing terms add nothing.
C8_CharacteristicEquation ==
    (runs > 0 /\ ~NonLinear(recurrence)) =>
        /\ locals.stage # "analysis"
        /\ locals.charEq = ExpectedCharacteristic(recurrence)

\* s(n) = s(n-2) + forcing: a bare call, no s(n-1), r^2 - 1.
C8_Witness ==
    /\ runs > 0
    /\ ~NonLinear(recurrence)
    /\ Coefficient(recurrence, 1) = 0
    /\ Coefficient(recurrence, 2) = 1
    /\ \E i \in 1..Len(recurrence) : ~HasS(recurrence[i])
    /\ locals.charEq = <<1, 0, -1>>

\* The p symbols of a roots map: p_i_j for the i-th root, 0 <= j < m_i.
ExpectedBlocks(roots) ==
    UNION {{SMono(PSym(i - 1, j), j, roots[i][1]) : j \in 0..(roots[i][2] - 1)} :
             i \in 1..Len(roots)}

\* C9: the general solution holds, for the i-th root of multiplicity m_i,
\* exactly p_i_j n^j root^n for 0 <= j < m_i; the symbols registered for
\* the initial fit are these, k of them.
C9_GeneralSolutionSymbols ==
    (runs > 0 /\ locals.stage \in {"general", "particular"}) =>
        /\ Range(locals.generalSolution) = ExpectedBlocks(locals.realRoots)
        /\ Len(locals.generalSolution) = degree
        /\ Range(CtxSymbols(locals.generalSolution))
              = {m.sym : m \in ExpectedBlocks(locals.realRoots)}
        /\ Cardinality(Range(CtxSymbols(locals.generalSolution))) = degree

\* A single root of multiplicity 2 = k: p_0_0 and p_0_1 n.
C9_Witness ==
    /\ runs > 0
    /\ locals.stage = "general"
    /\ degree = 2
    /\ Len(locals.realRoots) = 1
    /\ CtxSymbols(locals.generalSolution) = <<PSym(0, 0), PSym(0, 1)>>

\* The multiplicity of b as a root: 0 when b is no root.
Mu(roots, b) ==
    IF \E k \in 1..Len(roots) : roots[k][1] = b
    THEN roots[CHOOSE k \in 1..Len(roots) : roots[k][1] = b][2]
    ELSE 0

\* The largest power of n among the forcing terms of base b.
TopDegree(forcing, b) == SetMax({t.npow : t \in {u \in forcing : u.base = b}})

\* C10: the template has, for each base b of the forcing terms, the
\* monomials q_i_j n^(mu(b) + j) b^n for 0 <= j <= d, d the largest power
\* of n among the terms of base b and mu(b) the multiplicity of b as a
\* root; different bases have different indices i.
C10_ParticularTemplate ==
    (runs > 0 /\ locals.stage = "particular") =>
        LET forcing == locals.analysis.nonHomogenous
            template == locals.template
            bases == {t.base : t \in forcing}
            block(b) == {m \in Range(template) : m.base = b}
        IN  /\ {m.base : m \in Range(template)} = bases
            /\ Cardinality(Range(template)) = Len(template)
            /\ Cardinality({m.sym.i : m \in Range(template)}) = Cardinality(bases)
            /\ \A b \in bases :
                 \E i \in 0..(Cardinality(bases) - 1) :
                    block(b) = {SMono(QSym(i, j), Mu(locals.realRoots, b) + j, b) :
                               j \in 0..TopDegree(forcing, b)}

\* Forcing n + 2 on the double root 1: d = 1 and mu = 2 give the
\* template q_0_1 n^3 + q_0_0 n^2.
C10_Witness ==
    /\ runs > 0
    /\ Cardinality(locals.analysis.nonHomogenous) = 2
    /\ locals.stage = "particular"
    /\ locals.realRoots = << <<1, 2>> >>
    /\ Range(locals.template) = {SMono(QSym(0, 1), 3, 1), SMono(QSym(0, 0), 2, 1)}
    /\ closedForm.set

\* A forcing part with a factor in n that is none of n, n^d and b^n.
UnsupportedForcing(forcing) == \E t \in forcing : t.other

\* C11: a forcing term with a factor in n that is none of n, n^d, b^n makes
\* the classifier raise: no template is ever built from such a forcing
\* part, the factor is not passed over in silence.
C11_UnsupportedForcingIsRejected ==
    (runs > 0 /\ UnsupportedForcing(locals.analysis.nonHomogenous))
        => locals.template = <<>>

RECURSIVE RPow(_, _)
RPow(x, e) == IF e = 0 THEN ROne ELSE RMul(x, RPow(x, e - 1))

\* The right-hand side of the recurrence at n, with the closed form f put
\* for s.
RECURSIVE CallsOn(_, _, _)
CallsOn(cs, f, n) ==
    IF cs = <<>> THEN ROne
    ELSE RMul(RPow(EvalClosed(f, n - Head(cs).off), Head(cs).pow),
              CallsOn(Tail(cs), f, n))

TermOn(t, f, n) ==
    RMul(RInt(t.coef * IPow(n, t.npow) * IPow(t.base, n)
              * (IF t.other THEN Factorial(n) ELSE 1)),
         CallsOn(t.calls, f, n))

RightHandSideOn(rec, f, n) == RSum([i \in 1..Len(rec) |-> TermOn(rec[i], f, n)])

\* The indices at which a candidate is compared with the recurrence: two
\* expressions of the shape SUM c n^d b^n with d <= 3 and two bases that
\* agree at eight indices are equal.
ResidualPoints == 2..9

\* f satisfies the recurrence: f(n) = rhs(n, f(n-1), ..., f(n-k)).
SatisfiesRecurrence(rec, f) ==
    \A n \in ResidualPoints : EvalClosed(f, n) = RightHandSideOn(rec, f, n)

\* C12: in a non-homogeneous solve a closed form is built only from a
\* particular solution that satisfies the recurrence (the residual with it
\* substituted is 0); a run that gets to the particular solution and gives
\* no closed form ends in RecurrenceSolveFailed, be it for an unsolvable
\* coefficient equation or for a residual that is not 0.
C12_ParticularSatisfiesRecurrence ==
    (runs > 0 /\ locals.stage = "particular") =>
        /\ closedForm.set => SatisfiesRecurrence(recurrence, locals.particular)
        /\ (~closedForm.set /\ outcome.op \in SolveCalls)
              => outcome.status = "RecurrenceSolveFailed"

\* s(n) = 2 s(n-1) + n + 2 and the like: solved with a particular solution
\* that is not 0.
C12_Witness ==
    /\ runs > 0
    /\ locals.stage = "particular"
    /\ closedForm.set
    /\ locals.particular # {}
    /\ Cardinality(locals.analysis.nonHomogenous) >= 2
    /\ outcome.op = "solve"

\* The combination SUM y_k row_k of the equations of the initial conditions.
Combination(rows, y) ==
    [c \in 1..Len(rows[1]) |->
        RSum([k \in 1..Len(rows) |-> RMul(RInt(y[k]), rows[k][c])])]

\* The equation combo reads 0 = c with c # 0.
Contradiction(combo, nv) ==
    /\ \A c \in 1..nv : combo[c] = RZero
    /\ combo[nv + 1] # RZero

\* Some combination of the equations rows is a contradiction; its first
\* weight can be taken positive or 0.
Infeasible(rows, nv) ==
    \E y \in [1..Len(rows) -> -16..16] :
        y[1] >= 0 /\ Contradiction(Combination(rows, y), nv)

\* No values of the p symbols satisfy the equations of the initial
\* conditions for the general solution monos plus particular.
NoFit(monos, particular, ics) ==
    Infeasible(FitRows(monos, particular, ics), Len(monos))

\* C13: when no values of the p symbols meet the initial conditions, the
\* conditions being contradictory or too many for the order, solve()
\* raises RecurrenceSolveFailed and gives no closed form.
C13_UnsolvableConditionsRaise ==
    (/\ runs > 0
     /\ locals.stage \in {"general", "particular"}
     /\ NoFit(locals.generalSolution, locals.particular, initialConditions))
        => /\ ~closedForm.set
           /\ outcome.op \in SolveCalls => outcome.status = "RecurrenceSolveFailed"

\* s(n) = c s(n-1) with two initial conditions that no p c^n meets.
C13_Witness ==
    /\ runs > 0
    /\ locals.stage = "general"
    /\ degree = 1
    /\ Len(initialConditions) = 2
    /\ NoFit(locals.generalSolution, locals.particular, initialConditions)
    /\ outcome = Outcome("solve", 0, "RecurrenceSolveFailed")

\* A monomial c n^d b^n with numbers c, d and b: it mentions n only.
MentionsOnlyN(m) ==
    /\ DOMAIN m = {"coef", "deg", "base"}
    /\ m.coef \in Int \X (Nat \ {0})
    /\ m.deg \in Nat
    /\ m.base \in Int

\* C14: a closed form that solve() has stored mentions n only: it is a sum
\* of monomials c n^d b^n with numeric c, no p symbol and no q symbol is
\* left in it, for homogeneous and non-homogeneous recurrences, also when
\* symbols were free and set to 0.
C14_ClosedFormMentionsOnlyN ==
    closedForm.set =>
        /\ closedForm.left = {}
        /\ \A m \in closedForm.form : MentionsOnlyN(m)

\* A non-homogeneous recurrence of order 2 solved from one initial
\* condition: a p symbol was free.
C14_Witness ==
    /\ closedForm.set
    /\ locals.stage = "particular"
    /\ locals.particular # {}
    /\ Len(locals.generalSolution) = 2
    /\ Len(initialConditions) = 1
    /\ Cardinality(closedForm.form) >= 2

\* The text asked for: ^ for **, and ((E)^(1/2)) for sqrt(E), E rewritten
\* in the same way.
RECURSIVE RewrittenText(_)
RewrittenOperand(e) ==
    IF e.op \in {"sum", "prod", "pow"} THEN Bracketed(RewrittenText(e))
    ELSE RewrittenText(e)
RewrittenText(e) ==
    CASE e.op = "atom" -> e.text
      [] e.op = "sqrt" ->
            Bracketed(Bracketed(RewrittenText(e.args[1]))
                      \o <<"^", "(", "1", "/", "2", ")">>)
      [] e.op = "pow" -> RewrittenOperand(e.args[1]) \o <<"^">> \o RewrittenOperand(e.args[2])
      [] e.op = "sum" ->
            RewrittenText(e.args[1]) \o <<" ", "+", " ">> \o RewrittenText(e.args[2])
      [] OTHER -> RewrittenOperand(e.args[1]) \o <<"*">> \o RewrittenOperand(e.args[2])

\* The same with (E)^(1/2) for sqrt(E), without the brackets around it.
RECURSIVE BareRewrittenText(_)
BareRewrittenOperand(e) ==
    IF e.op \in {"sum", "prod", "pow"} THEN Bracketed(BareRewrittenText(e))
    ELSE BareRewrittenText(e)
BareRewrittenText(e) ==
    CASE e.op = "atom" -> e.text
      [] e.op = "sqrt" ->
            Bracketed(BareRewrittenText(e.args[1])) \o <<"^", "(", "1", "/", "2", ")">>
      [] e.op = "pow" ->
            BareRewrittenOperand(e.args[1]) \o <<"^">> \o BareRewrittenOperand(e.args[2])
      [] e.op = "sum" ->
            BareRewrittenText(e.args[1]) \o <<" ", "+", " ">> \o BareRewrittenText(e.args[2])
      [] OTHER -> BareRewrittenOperand(e.args[1]) \o <<"*">> \o BareRewrittenOperand(e.args[2])

Contains(text, pattern) ==
    \E k \in 1..(Len(text) - Len(pattern) + 1) :
        \A c \in 1..Len(pattern) : text[k + c - 1] = pattern[c]

\* The number of brackets open after the first k characters.
Depth(text, k) ==
    Cardinality({c \in 1..k : text[c] = "("}) - Cardinality({c \in 1..k : text[c] = ")"})

Balanced(text) ==
    /\ \A k \in 1..Len(text) : Depth(text, k) >= 0
    /\ Depth(text, Len(text)) = 0

\* The number of sqrt in a text.
CountSqrt(text) ==
    Cardinality({k \in 1..(Len(text) - 3) :
                    SubSeq(text, k, k + 3) = <<"s", "q", "r", "t">>})

\* What holds of every text _from_sympy returns, and of its loop: no **, no
\* sqrt, balanced brackets, and one sqrt less after every pass of the loop,
\* so that the loop ends after as many passes as the text has square roots.
ReturnsCleanText ==
    /\ formatter.pc = "done" =>
          /\ ~Contains(formatter.expressionString, <<"*", "*">>)
          /\ ~Contains(formatter.expressionString, <<"s", "q", "r", "t">>)
          /\ Balanced(formatter.expressionString)
    /\ formatter.pc \in {"loop", "done"} =>
          formatter.iterations + CountSqrt(formatter.expressionString)
              = CountSqrt(Str(formatter.expr))

\* C15 (as amended): the text returned has ^ for every ** and, for every
\* sqrt(E), nested ones included, ((E)^(1/2)): (E)^(1/2) inside one more
\* pair of brackets, E unchanged but for its own square roots; it holds no
\* ** and no sqrt, its brackets are balanced, and the loop ends.
C15_SqrtRewrittenInBrackets ==
    /\ ReturnsCleanText
    /\ formatter.pc = "done" =>
          formatter.expressionString = RewrittenText(formatter.expr)

\* C15 (as stated): sqrt(E) is rewritten as (E)^(1/2).
C15_SqrtRewrittenBare ==
    /\ ReturnsCleanText
    /\ formatter.pc = "done" =>
          formatter.expressionString = BareRewrittenText(formatter.expr)

\* sqrt(sqrt(5) + n) and the like were rewritten: a square root inside a
\* square root, in two passes of the loop.
C15_Witness ==
    /\ formatter.pc = "done"
    /\ formatter.expr.op = "sqrt"
    /\ formatter.expr.args[1].op = "sum"
    /\ formatter.expr.args[1].args[1].op = "sqrt"
    /\ formatter.iterations = 2

\* The file the relation r of the last pass was read from.
FileOfR == batch.files[batch.relations[batch.k - 1].file]

\* The right-hand side of the last line s(n) = ... of a file.
RightHandSide(file) ==
    file[SetMax({i \in 1..Len(file) : file[i].key = "n"})].eq

MentionsSN(t) == \E i \in 1..Len(t.calls) : t.calls[i].off = 0

\* The coefficient of s(n) in a sum.
CoefficientOfSN(S) ==
    IF \E t \in S : Mono(t) = SN THEN (CHOOSE t \in S : Mono(t) = SN).coef ELSE 0

\* C16: for a relation built by parse_recurrence the expression the core
\* works on is the right-hand side of the line s(n) = ...; when that holds
\* no s(n), the analysed expression holds none and the residual
\* (recurrence - s(n), line 402) holds s(n) with the coefficient -1.
C16_SubtractedOnce ==
    (batch.pc \in {"solve", "end", "stopped"} /\ runs > 0) =>
        /\ Range(recurrence) = SumOfSeq(RightHandSide(FileOfR))
        /\ (\A t \in Range(RightHandSide(FileOfR)) : ~MentionsSN(t)) =>
              /\ \A t \in Range(recurrence) : ~MentionsSN(t)
              /\ \A t \in locals.analysis.homogenous : ~MentionsSN(t)
              /\ CoefficientOfSN(SumAdd(Range(recurrence), [SN EXCEPT !.coef = -1])) = -1

\* C17: on an object on which solve() was never called,
\* calculateValueFromRecurrence(n) does not raise for n at or above the
\* lowest initial-condition index, and the value it returns is stored.
C17_IterationNeedsNoSolve ==
    (runs = 0 /\ outcome.op = "calculateValueFromRecurrence"
              /\ outcome.n >= GetLowerBoundDomain) =>
        /\ outcome.status = "none"
        /\ outcome.n \in DOMAIN solvedValues

\* The right-hand side at n = i on the stored values: every s(i - j) it
\* mentions is stored as a number, and the sum of its terms.
CallsStored(rec, memo, i) ==
    \A t \in Range(rec) : \A c \in Range(t.calls) :
        (i - c.off) \in DOMAIN memo /\ c.off >= 1 /\ ~memo[i - c.off].sym

RECURSIVE CallsProduct(_, _, _)
CallsProduct(cs, memo, i) ==
    IF cs = <<>> THEN 1
    ELSE IPow(memo[i - Head(cs).off].val, Head(cs).pow) * CallsProduct(Tail(cs), memo, i)

RECURSIVE OnStored(_, _, _)
OnStored(rec, memo, i) ==
    IF rec = <<>> THEN 0
    ELSE Head(rec).coef * IPow(i, Head(rec).npow) * IPow(Head(rec).base, i)
            * (IF Head(rec).other THEN Factorial(i) ELSE 1)
            * CallsProduct(Head(rec).calls, memo, i)
         + OnStored(Tail(rec), memo, i)

StoredAsRecurrenceSays(memo, i) ==
    /\ ~memo[i].sym
    /\ CallsStored(recurrence, memo, i)
    /\ memo[i].val = OnStored(recurrence, memo, i)

\* C18: after a call calculateValueFromRecurrence(n) the table holds every
\* index from the lowest initial-condition index to n, every value stored
\* beyond the initial conditions is the right-hand side on the stored
\* values before it, and a call for a stored index leaves the table as it
\* was.
C18_MemoTable ==
    [][outcome'.op = "calculateValueFromRecurrence" =>
          /\ \A i \in GetLowerBoundDomain..outcome'.n : i \in DOMAIN solvedValues'
          /\ \A i \in (DOMAIN solvedValues') \ ConditionIndices :
                StoredAsRecurrenceSays(solvedValues', i)
          /\ outcome'.n \in DOMAIN solvedValues => solvedValues' = solvedValues]_vars

\* The file of the relation r of the last pass.
FileIndexOfR == batch.relations[batch.k - 1].file

\* The iterated value and the closed form agree at index i within the
\* tolerance.
AgreeAt(i) ==
    /\ i \in DOMAIN solvedValues
    /\ ~solvedValues[i].sym
    /\ RLess(RAbs(RSub(RInt(solvedValues[i].val), EvalClosed(closedForm.form, i))),
             <<1, 10000>>)

\* C19: an output file exists only for files already handled, and the file
\* of the relation r of the last pass is written only if r.solve()
\* succeeded and the iterated and closed-form values agree within 10^-4 on
\* every index of [i0, i0 + check); no output file after a solve that
\* raised or a verification that failed.
C19_WrittenOnlyWhenVerified ==
    /\ batch.pc = "read" => batch.written = {}
    /\ (batch.pc \in {"solve", "end", "stopped"} /\ runs > 0) =>
          /\ batch.written \subseteq {batch.relations[j].file : j \in 1..(batch.k - 1)}
          /\ FileIndexOfR \in batch.written =>
                /\ closedForm.set
                /\ \A i \in GetLowerBoundDomain..(GetLowerBoundDomain + batch.check - 1) :
                      AgreeAt(i)

\* The driver is through: a file was written after a verification over two
\* indices or more, another one was refused.
C19_Witness ==
    /\ batch.pc = "end"
    /\ batch.check >= 2
    /\ batch.written # {}
    /\ batch.logged # {}
    /\ FileIndexOfR \in batch.written
    /\ GetLowerBoundDomain + 1 \in DOMAIN solvedValues

\* C20: no failure stops the driver, and when it is through every file was
\* either written or refused with a logged error.
C20_FailuresDoNotStopTheDriver ==
    /\ batch.pc # "stopped"
    /\ batch.pc = "end" =>
          \A f \in 1..Len(batch.files) : f \in batch.written \cup batch.logged

\* The exit code of the process once main is over (lines 93-94: main() is
\* called and its result dropped, there is no sys.exit): 0 when main
\* returns, 1 when an exception leaves main.
ExitCode == IF batch.pc = "stopped" THEN 1 ELSE 0

\* C21: once the driver is over, its exit code is 0 exactly when every
\* input file was solved and verified, that is when its output file was
\* written.
C21_ExitCodeTellsFailure ==
    batch.pc \in {"end", "stopped"} =>
        (ExitCode = 0 <=> \A f \in 1..Len(batch.files) : f \in batch.written)

ForcingPart(rec) == {t \in Range(rec) : ~HasS(t)}

\* C23: an execution of _solve that reached the roots had found the
\* recurrence linear and built the characteristic equation; one that
\* reached the general solution had passed the multiplicity check; the
\* template and the undetermined coefficients are run exactly when the
\* forcing part is not zero, and the closed form is stored after them; for
\* a homogeneous recurrence no q symbol is created and the closed form
\* comes from the general solution and the initial fit.
C23_StagesInOrder ==
    runs > 0 =>
        /\ locals.stage \in {"roots", "general", "particular"} =>
              locals.analysis.linear /\ locals.charEq # <<>>
        /\ locals.stage \in {"general", "particular"} =>
              /\ SumMultiplicities(locals.realRoots) = degree
              /\ Len(locals.generalSolution) = degree
        /\ locals.stage \in {"general", "particular"} =>
              (locals.stage = "particular" <=> ForcingPart(recurrence) # {})
        /\ ForcingPart(recurrence) = {} =>
              /\ locals.template = <<>>
              /\ locals.particular = {}
        /\ closedForm.set => locals.stage \in {"general", "particular"}

\* The free symbols of a solution: those that are their own value, and
\* those without value that occur in the value of another.
FreeSymbols(solution) ==
    {a \in 1..MaxSymbols :
        \/ a \in solution.keys /\ solution.expr[a] = UnitExpr(a, MaxSymbols)
        \/ a \notin solution.keys
             /\ \E k \in solution.keys : solution.expr[k][a] # RZero}

\* The expression expr with 0 put for the symbols of S.
WithZeroFor(expr, S) ==
    [c \in 1..(MaxSymbols + 1) |-> IF c \in S THEN RZero ELSE expr[c]]

\* C24: the mapping returned holds the symbols of the solution and the
\* free symbols; a free symbol has the value 0, a determined one its
\* solution with 0 put for the free symbols, and no value mentions a
\* symbol.
C24_FreeSymbolsAreZero ==
    zeroing.pc = "done" =>
        /\ zeroing.result.keys = zeroing.solution.keys \cup FreeSymbols(zeroing.solution)
        /\ \A a \in FreeSymbols(zeroing.solution) :
              zeroing.result.expr[a] = [c \in 1..(MaxSymbols + 1) |-> RZero]
        /\ \A k \in zeroing.solution.keys \ FreeSymbols(zeroing.solution) :
              zeroing.result.expr[k]
                  = WithZeroFor(zeroing.solution.expr[k], FreeSymbols(zeroing.solution))
        /\ \A k \in zeroing.result.keys : \A c \in 1..MaxSymbols :
              zeroing.result.expr[k][c] = RZero

\* A solution with the three kinds of symbol: symbol 1 is determined by
\* symbol 2, which is its own value, and by symbol 3, which has no value.
C24_Witness ==
    /\ zeroing.pc = "done"
    /\ zeroing.solution.keys = {1, 2}
    /\ zeroing.solution.expr[2] = UnitExpr(2, MaxSymbols)
    /\ zeroing.solution.expr[1][2] = ROne
    /\ zeroing.solution.expr[1][3] = ROne
    /\ zeroing.solution.expr[1][MaxSymbols + 1] = RInt(2)
    /\ zeroing.result.expr[1][MaxSymbols + 1] = RInt(2)

\* C25: a call of solve() that raises leaves no closed form; on an object
\* whose executions of _solve all raised, the next call executes _solve
\* again and raises again at the same stage; a call returns only with the
\* closed form of an execution that succeeded, and an object without
\* success holds no closed form, partial or other.
C25_FailedSolveCachesNothing ==
    [][/\ (outcome'.op \in SolveCalls /\ outcome'.status # "none") =>
              ~closedForm.set /\ closedForm' = NoClosedForm
       /\ (outcome'.op \in SolveCalls /\ outcome'.status = "none") => closedForm'.set
       /\ (runs > 0 /\ ~closedForm.set /\ outcome'.op \in SolveCalls) =>
              /\ runs' = runs + 1
              /\ outcome'.status # "none"
              /\ locals'.stage = locals.stage
              /\ ~closedForm'.set
       /\ ~closedForm'.set => closedForm' = NoClosedForm]_vars

\* solve() raised twice on the same object, for roots whose multiplicities
\* do not sum to the order.
C25_Witness ==
    /\ runs = 2
    /\ ~closedForm.set
    /\ outcome = Outcome("solve", 0, "RecurrenceSolveFailed")
    /\ locals.stage = "roots"

\* C26: no call changes the recurrence, the initial conditions or
\* getLowerBoundDomain(); a call of solve() leaves the memo table as it is,
\* and when it executes _solve the result is that of the recurrence and the
\* initial conditions alone, whatever the memo table holds; a call of
\* calculateValueFromRecurrence leaves the closed form as it is and only
\* adds entries to the memo table.
C26_MemoIsSeparate ==
    [][/\ recurrence' = recurrence
       /\ initialConditions' = initialConditions
       /\ GetLowerBoundDomain' = GetLowerBoundDomain
       /\ outcome'.op \in SolveCalls =>
              /\ solvedValues' = solvedValues
              /\ runs' = runs + 1 =>
                    \E sel \in Selections(recurrence) :
                        LET run == SolveRun(recurrence, initialConditions, sel)
                        IN  /\ locals' = run.locals
                            /\ outcome'.status = run.status
                            /\ run.status = "none" =>
                                   closedForm' = [set |-> TRUE, form |-> run.solved,
                                                  left |-> run.left]
       /\ outcome'.op = "calculateValueFromRecurrence" =>
              /\ closedForm' = closedForm
              /\ \A i \in DOMAIN solvedValues :
                    i \in DOMAIN solvedValues' /\ solvedValues'[i] = solvedValues[i]]_vars

\* Iteration memoized values between two executions of _solve that both
\* reached the fit of the initial conditions: the memo table holds more
\* entries than there are initial conditions.
C26_Witness ==
    /\ runs = 2
    /\ outcome.op \in SolveCalls
    /\ locals.stage = "general"
    /\ ~RootsIncomplete(locals.realRoots, degree)
    /\ Cardinality(DOMAIN solvedValues) > Len(initialConditions)

====
